---- MODULE Spec2Model ----
(***************************************************************************)
(* LeGO-LOAM-BOR front end.                                                *)
(*                                                                         *)
(* Part 1, ImageProjection (src/unnamed/part_000): one cloudHandler run    *)
(* per scan, split at its calls: resetParameters + projectPointCloud,      *)
(* groundRemoval, the labelComponents calls of cloudSegmentation, the      *)
(* extraction loops of cloudSegmentation, publishClouds.                   *)
(*                                                                         *)
(* Part 2, FeatureAssociation (src/LeGO-LOAM/src/featureAssociation.cpp):  *)
(* the per-scan association path of runFeatureAssociation, with the two    *)
(* solver passes of updateTransformation split at their iterations.        *)
(*                                                                         *)
(* Lengths are integers in centimetres.  A point of the range image is     *)
(* kept by its coordinates in the vertical plane of its azimuth column:    *)
(* h (horizontal distance) and z (height), so that for two points of one   *)
(* column dX^2 + dY^2 = dh^2.                                              *)
(***************************************************************************)
EXTENDS Integers, Sequences, FiniteSets, TLC

(***************************************************************************)
(* Scan geometry of the model (the constructor's N_scan, horizontal_scan   *)
(* and the configured groundScanInd, scaled down).                         *)
(***************************************************************************)
N_scan == 3
Horizon_SCAN == 16
groundScanInd == 1

\* Configuration values used by labelComponents (declared outside the two
\* given sources; SinAlpha/CosAlpha are per mille, TanSegmentTheta per mille).
segmentValidPointNum == 5
segmentValidLineNum == 3
SinAlphaX == 3
CosAlphaX == 1000
SinAlphaY == 35
CosAlphaY == 999
TanSegmentTheta == 1732

\* Program constants.
FLT_MAX == 1000000000
RejectedLabel == 999999
FeasibleSize == 30
TanSqTenDeg == 31
MinRange == 10
RingInset == 5
GroundColStep == 5
TagScale == 10000

Rows == 0 .. (N_scan - 1)
Cols == 0 .. (Horizon_SCAN - 1)
Cells == Rows \X Cols
cloud_size == N_scan * Horizon_SCAN

Min(a, b) == IF a < b THEN a ELSE b
Max(a, b) == IF a > b THEN a ELSE b

(***************************************************************************)
(* The input scans.  A scan is given by what each beam (row, column)       *)
(* returned: nothing, a point of a near wall "A", of a far wall "B", of    *)
(* the floor "G", or a return closer than 0.1 m "C".                       *)
(*   rows rTop..rBot hold a block: "A" in the columns below wTop (row      *)
(*   rTop) or wBody (the rows under it), `rest` in the other columns,      *)
(*   where the rest "H" is the floor with one column that returns nothing; *)
(*   every other row holds `other` in all its columns.                     *)
(***************************************************************************)
Widths == {1, 2, 14, 15, Horizon_SCAN}

ScanParams ==
  { p \in [rTop : Rows, rBot : Rows, wTop : Widths, wBody : Widths,
           rest : {"none", "B", "G", "H"}, other : {"none", "G", "C"}] :
      /\ p.rTop <= p.rBot
      /\ p.wTop <= Horizon_SCAN
      /\ p.wBody <= Horizon_SCAN }

KindAt(p, i, j) ==
  IF i < p.rTop \/ i > p.rBot THEN p.other
  ELSE IF j < (IF i = p.rTop THEN p.wTop ELSE p.wBody) THEN "A"
  ELSE IF p.rest = "H"
       THEN IF j = Horizon_SCAN - 4 THEN "none" ELSE "G"
  ELSE p.rest

\* The return of kind k on ring i: a wall at 5 m or 10 m, the floor 1.5 m
\* under the sensor, or a return 5 cm away.
PointOfKind(k, i) ==
  CASE k = "A" -> [h |-> 500, z |-> 17 * i - 8]
    [] k = "B" -> [h |-> 1000, z |-> 35 * i - 17]
    [] k = "G" -> [h |-> 560 + 100 * i, z |-> 0 - 150]
    [] k = "C" -> [h |-> 5, z |-> 0]

RECURSIVE SqrtBetween(_, _, _)
SqrtBetween(n, lo, hi) ==
  IF hi - lo <= 1 THEN lo
  ELSE LET mid == (lo + hi) \div 2
       IN IF mid * mid <= n THEN SqrtBetween(n, mid, hi)
          ELSE SqrtBetween(n, lo, mid)

Sqrt(n) == SqrtBetween(n, 0, 2048)

Abs(x) == IF x < 0 THEN 0 - x ELSE x

\* Integer division of C++, which truncates towards zero.
TruncDiv(a, b) == IF a >= 0 THEN a \div b ELSE 0 - ((0 - a) \div b)

VARIABLES
  \* ImageProjection
  pc,              \* position of cloudHandler
  full_cloud,      \* _full_cloud: cell -> point ([nan, h, z, intensity])
  range_mat,       \* _range_mat
  ground_mat,      \* _ground_mat
  label_mat,       \* _label_mat
  label_count,     \* _label_count
  lastCall,        \* the locals of the labelComponents call at its return
  segmented_cloud, \* _segmented_cloud: sequence of points
  outlier_cloud,   \* _outlier_cloud: sequence of points
  seg_msg,         \* _seg_msg: startRingIndex, endRingIndex, segmentedCloud*
  ipPtr,           \* the objects _segmented_cloud and _outlier_cloud point
                   \* to, the buffer of the arrays of _seg_msg (0: none)
  projectionOut,   \* the ProjectionOut in _output_channel
  bpc,             \* labelComponents alone: position of the call
  image,           \* labelComponents alone: _N_scan, _horizon_scan,
                   \* _range_mat, _label_mat, _label_count
  search,          \* labelComponents alone: queue, all_pushed,
                   \* lineCountFlag and the history of the call
  \* FeatureAssociation
  fpc,                       \* position of runFeatureAssociation
  systemInitedLM,
  transformCur,              \* [0 .. 5 -> Int], see the units below
  transformSum,              \* [0 .. 5 -> Int]
  laserCloudCornerLastNum,
  laserCloudSurfLastNum,
  cornerPointsLessSharpNum,  \* cornerPointsLessSharp->points.size()
  surfPointsLessFlatNum,     \* surfPointsLessFlat->points.size()
  isDegenerate,
  iterCount,                 \* iterCount1 / iterCount2 of updateTransformation
  pass,                      \* history: iteration 0 of the current pass
  proj,                      \* history: the last projection matX = matP * matX2
  scan                       \* history: the scan being processed

ipVars == << pc, full_cloud, range_mat, ground_mat, label_mat, label_count,
             lastCall, segmented_cloud, outlier_cloud, seg_msg, ipPtr,
             projectionOut, bpc, image, search >>

\* The variables of labelComponents run alone.
bfsVars == << bpc, image, search >>

faVars == << fpc, systemInitedLM, transformCur, transformSum,
             laserCloudCornerLastNum, laserCloudSurfLastNum,
             cornerPointsLessSharpNum, surfPointsLessFlatNum, isDegenerate,
             iterCount, pass, proj, scan >>

VARIABLES
  \* FeatureAssociation, feature extraction
  epc,                     \* position in the extraction steps of one scan
  segInfo,                 \* the seg_msg received with the scan
  cloudCurvature,          \* [index -> Int]
  cloudNeighborPicked,     \* [index -> 0 .. 1]
  cloudLabel,              \* [index -> -1 .. 2]
  cloudSmoothness,         \* [index -> [value, ind]]
  cornerPointsSharp,       \* sequence of segmented-cloud indices
  cornerPointsLessSharp,
  surfPointsFlat,
  surfPointsLessFlat,
  surfPointsLessFlatScan,
  loop,                    \* the locals i, j, k, largestPickedNum,
                           \* smallestPickedNum of extractFeatures
  picks,                   \* history: the selections of this scan
  scansExtracted           \* history: number of scans received

efVars == << epc, segInfo, cloudCurvature, cloudNeighborPicked, cloudLabel,
             cloudSmoothness, cornerPointsSharp, cornerPointsLessSharp,
             surfPointsFlat, surfPointsLessFlat, surfPointsLessFlatScan,
             loop, picks, scansExtracted >>

VARIABLES
  \* FeatureAssociation, the IMU ring buffer and imuHandler
  ipc,                 \* position of imuHandler
  imuIn,               \* the sample of the current (or last) imuHandler call
  clock,               \* the stamp of the latest IMU sample
  imuCount,            \* history: number of imuHandler calls
  imuPointerLast,
  imuTime,             \* [slot -> Int]
  imuRoll,
  imuPitch,
  imuAcc,              \* the x component of imuAcc[slot]
  imuVelo,             \* the x component of imuVelo[slot]
  imuShift,            \* the x component of imuShift[slot]
  imuAngularVelo,      \* the x component of imuAngularVelo[slot]
  imuAngularRotation,  \* the x component of imuAngularRotation[slot]
  \* the node: ros::ok(), the destructor, the input channel
  rosOk,
  dpc,                 \* position of ~FeatureAssociation
  sentinel,            \* the default-constructed message of the destructor
  \* FeatureAssociation, the worker outside the solver
  imu_mutex,           \* _imu_mutex: "free" or its holder
  imu,                 \* the worker's IMU members: imuPointerFront,
                       \* imuPointerLastIteration, imuRollStart, ...
  projection,          \* the message received by the worker
  timeScanCur,
  cycle_count,
  clouds,               \* the point clouds objects: [object -> content]
  ptr,                 \* the shared pointers: [member -> object]
  kdtree,              \* kdtreeCornerLast, kdtreeSurfLast: what was indexed
  odometry,            \* history: the poses published, with their scan
  forwarded,           \* history: the scans after which a bundle was sent
  association,         \* the AssociationOut most recently sent
  lockView             \* history: the ring buffer when the worker locked

imuVars == << ipc, imuIn, clock, imuCount, imuPointerLast, imuTime, imuRoll,
              imuPitch, imuAcc, imuVelo, imuShift, imuAngularVelo,
              imuAngularRotation >>

VARIABLES
  \* FeatureAssociation, one correspondence search taken alone
  corr,                \* the locals of the search for one feature point
  \* findStartEndAngle and the relative time of adjustDistortion alone
  adj                  \* the orientations of the scan, halfPassed, the
                       \* latest point and its relative time

\* The variables of the functions that are checked alone; no step of the
\* two nodes changes them.
unitVars == << corr, adj >>

lifeVars == << rosOk, dpc, sentinel, unitVars >>

workVars == << imu_mutex, imu, projection, timeScanCur, cycle_count, clouds,
               ptr, kdtree, odometry, forwarded, association, lockView >>

\* What the steps of ImageProjection, of the solver, of feature extraction
\* and of imuHandler leave alone.
ipFrame == << faVars, efVars, imuVars, lifeVars, workVars >>
faFrame == << ipVars, efVars, imuVars, lifeVars, workVars >>
efFrame == << ipVars, faVars, imuVars, lifeVars, workVars >>
imuFrame == << ipVars, faVars, efVars, lifeVars, workVars >>

\* What a function checked alone leaves alone.
unitFrame == << ipVars, faVars, efVars, imuVars, workVars, rosOk, dpc,
               sentinel >>

(***************************************************************************)
(* Objects.  A cloud created by new pcl::PointCloud and the buffer of the  *)
(* arrays of a message are objects of the heap, named by a number; 0 is    *)
(* the null pointer, or a message whose arrays are empty.  An object is    *)
(* live while a pointer of one of the stages, a message in a channel or    *)
(* the bundle sent to the mapping refers to it; new returns an object that *)
(* is not live.                                                            *)
(***************************************************************************)
MaxObjects == 24
Heap == 1 .. MaxObjects

NoOut == [outlier_cloud |-> 0, segmented_cloud |-> 0, seg_msg |-> 0]
NoAssociation ==
  [cloud_corner_last |-> 0, cloud_surf_last |-> 0, cloud_outlier_last |-> 0,
   corner |-> [n |-> 0, of |-> 0, frame |-> "none"],
   surf |-> [n |-> 0, of |-> 0, frame |-> "none"]]

\* The objects ImageProjection, the last ProjectionOut, the worker and the
\* last AssociationOut refer to.
ProjectionObjects ==
  {ipPtr.segmented_cloud, ipPtr.outlier_cloud, ipPtr.seg_msg} \ {0}
SentObjects ==
  {projectionOut.outlier_cloud, projectionOut.segmented_cloud,
   projectionOut.seg_msg} \ {0}
WorkerObjects ==
  ({projection.outlier_cloud, projection.segmented_cloud, projection.seg_msg}
   \cup {ptr[m] : m \in DOMAIN ptr}
   \cup {kdtree.corner.object, kdtree.surf.object}) \ {0}
AssociationObjects ==
  {association.cloud_corner_last, association.cloud_surf_last,
   association.cloud_outlier_last} \ {0}
Live ==
  ProjectionObjects \cup SentObjects \cup WorkerObjects
    \cup AssociationObjects

\* new: the k-th object created after the objects of `live`.
RECURSIVE New(_, _)
New(live, k) ==
  LET free == Heap \ live
      a == CHOOSE x \in free : \A y \in free : x <= y
  IN IF k = 1 THEN a ELSE New(live \cup {a}, k - 1)

(***************************************************************************)
(* resetParameters                                                         *)
(***************************************************************************)
\* PointType nanPoint: x, y, z are NaN, the intensity is the constructor's 0.
nanPoint == [nan |-> TRUE, h |-> 0, z |-> 0, intensity |-> 0]

NoCall == [start |-> << 0, 0 >>, all_pushed |-> << >>, lineCount |-> 0,
           feasibleSegment |-> FALSE, label |-> 0]

ResetSegMsg ==
  [startRingIndex |-> [i \in Rows |-> 0],
   endRingIndex |-> [i \in Rows |-> 0],
   segmentedCloudGroundFlag |-> [k \in 0 .. (cloud_size - 1) |-> FALSE],
   segmentedCloudColInd |-> [k \in 0 .. (cloud_size - 1) |-> 0],
   segmentedCloudRange |-> [k \in 0 .. (cloud_size - 1) |-> 0]]

\* cloudHandler's first call.  The arrays of _seg_msg are assigned: a buffer
\* is created for them when the message has none.  The message of the scan
\* before has left the channel when a scan arrives.
ResetParameters ==
  /\ pc = "idle"
  /\ pc' = "reset"
  /\ range_mat' = [c \in Cells |-> FLT_MAX]
  /\ full_cloud' = [c \in Cells |-> nanPoint]
  /\ ground_mat' = [c \in Cells |-> 0]
  /\ label_mat' = [c \in Cells |-> 0]
  /\ label_count' = 1
  /\ lastCall' = NoCall
  /\ segmented_cloud' = << >>
  /\ outlier_cloud' = << >>
  /\ seg_msg' = ResetSegMsg
  /\ ipPtr' = [ipPtr EXCEPT !.seg_msg =
                  IF @ = 0 THEN New(Live \ (SentObjects \ WorkerObjects), 1)
                  ELSE @]
  /\ projectionOut' = NoOut
  /\ UNCHANGED bfsVars
  /\ UNCHANGED ipFrame

(***************************************************************************)
(* projectPointCloud                                                       *)
(***************************************************************************)
\* thisPoint.intensity = rowIdn + columnIdn / 10000.0, kept in 1/10000.
IntensityTag(rowIdn, columnIdn) == rowIdn * TagScale + columnIdn
TagRow(intensity) == intensity \div TagScale
TagCol(intensity) == intensity % TagScale

RangeOf(pt) == Sqrt(pt.h * pt.h + pt.z * pt.z)

\* A return is stored unless its range is below 0.1 m.
Stored(p, c) ==
  /\ KindAt(p, c[1], c[2]) # "none"
  /\ RangeOf(PointOfKind(KindAt(p, c[1], c[2]), c[1])) >= MinRange

ProjectedPoint(p, c) ==
  LET pt == PointOfKind(KindAt(p, c[1], c[2]), c[1])
  IN [nan |-> FALSE, h |-> pt.h, z |-> pt.z,
      intensity |-> IntensityTag(c[1], c[2])]

\* A cell that receives no point keeps its reset value.
ProjectPointCloud(p) ==
  /\ pc = "reset"
  /\ pc' = "projected"
  /\ range_mat' = [c \in Cells |->
        IF Stored(p, c)
        THEN RangeOf(PointOfKind(KindAt(p, c[1], c[2]), c[1]))
        ELSE range_mat[c]]
  /\ full_cloud' = [c \in Cells |->
        IF Stored(p, c) THEN ProjectedPoint(p, c) ELSE full_cloud[c]]
  /\ UNCHANGED << ground_mat, label_mat, label_count, lastCall,
                  segmented_cloud, outlier_cloud, seg_msg >>
  /\ UNCHANGED << ipPtr, projectionOut, bfsVars >>
  /\ UNCHANGED ipFrame

(***************************************************************************)
(* groundRemoval                                                           *)
(***************************************************************************)
\* (vertical_angle - sensorMountAngle) <= 10 deg for the mount angle 0, with
\* vertical_angle = atan2(dZ, sqrt(dX^2 + dY^2 + dZ^2)); a comparison with a
\* NaN operand is false.
AngleWithinTenDeg(lower, upper) ==
  LET dZ == upper.z - lower.z
      dH == upper.h - lower.h
  IN /\ ~lower.nan
     /\ ~upper.nan
     /\ \/ dZ <= 0
        \/ 1000 * dZ * dZ <= TanSqTenDeg * (dH * dH + dZ * dZ)

\* The pair (i, j), (i+1, j) of the first loop, applied to column j's values g.
GroundPair(g, i, j) ==
  IF \/ full_cloud[<< i, j >>].intensity = 0 - 1
     \/ full_cloud[<< i + 1, j >>].intensity = 0 - 1
  THEN [g EXCEPT ![i] = 0 - 1]
  ELSE IF AngleWithinTenDeg(full_cloud[<< i, j >>], full_cloud[<< i + 1, j >>])
       THEN [g EXCEPT ![i] = 1, ![i + 1] = 1]
       ELSE g

RECURSIVE GroundColumn(_, _, _)
GroundColumn(g, i, j) ==
  IF i >= groundScanInd THEN g
  ELSE GroundColumn(GroundPair(g, i, j), i + 1, j)

GroundMat ==
  LET column == [j \in Cols |->
                   GroundColumn([i \in Rows |-> ground_mat[<< i, j >>]], 0, j)]
  IN [c \in Cells |-> column[c[2]][c[1]]]

\* A faulty second loop that tests only the range: ground cells stay open
\* for labelling.
GroundLabelRangeOnly(g, r, l) == IF r = FLT_MAX THEN 0 - 1 ELSE l

\* The second loop: ground and no-return cells need no label.
GroundLabel(g, r, l) == IF g = 1 \/ r = FLT_MAX THEN 0 - 1 ELSE l

GroundRemoval ==
  /\ pc = "projected"
  /\ pc' = "ground"
  /\ ground_mat' = GroundMat
  /\ label_mat' = [c \in Cells |->
        GroundLabel(GroundMat[c], range_mat[c], label_mat[c])]
  /\ UNCHANGED << full_cloud, range_mat, label_count, lastCall,
                  segmented_cloud, outlier_cloud, seg_msg >>
  /\ UNCHANGED << ipPtr, projectionOut, bfsVars >>
  /\ UNCHANGED ipFrame

(***************************************************************************)
(* labelComponents(row, col)                                               *)
(***************************************************************************)
neighborIterator == << << 0, 0 - 1 >>, << 0 - 1, 0 >>, << 1, 0 >>, << 0, 1 >> >>

\* boost::circular_buffer of capacity cap = cloud_size: push_back on a full
\* buffer drops the front element.
PushBack(cap, buf, e) ==
  IF Len(buf) >= cap THEN Append(Tail(buf), e) ELSE Append(buf, e)

\* The members labelComponents reads, apart from _label_mat.
ThisImage ==
  [N_scan |-> N_scan, horizon_scan |-> Horizon_SCAN, range_mat |-> range_mat,
   label_count |-> label_count]

\* tang > segmentThetaThreshold, with
\* tang = d2 * sin(alpha) / (d1 - d2 * cos(alpha)); a zero denominator gives
\* +inf.  horizontal: iter.x() == 0, alpha = segmentAlphaX.
TangAboveThreshold(ra, rb, horizontal) ==
  LET d1 == Max(ra, rb)
      d2 == Min(ra, rb)
      sinA == IF horizontal THEN SinAlphaX ELSE SinAlphaY
      cosA == IF horizontal THEN CosAlphaX ELSE CosAlphaY
      den == d1 * 1000 - d2 * cosA
  IN IF den = 0 THEN d2 * sinA > 0
     ELSE IF den > 0 THEN 1000 * d2 * sinA > TanSegmentTheta * den
     ELSE FALSE

\* The cell reached from `from` by neighborIterator[n] in an image of w
\* columns, with column wrap; the row is left out of range for the caller's
\* boundary test.
NeighborOf(w, from, n) ==
  LET thisIndX == from[1] + neighborIterator[n][1]
      y0 == from[2] + neighborIterator[n][2]
      thisIndY == IF y0 < 0 THEN w - 1 ELSE IF y0 >= w THEN 0 ELSE y0
  IN << thisIndX, thisIndY >>

\* A neighbour loop that pushes a cell without labelling it.
VisitNeighborUnmarked(im, st, from, n) ==
  LET to == NeighborOf(im.horizon_scan, from, n)
      cap == im.N_scan * im.horizon_scan
  IN IF to[1] < 0 \/ to[1] >= im.N_scan THEN st
     ELSE IF st.label[to] # 0 THEN st
     ELSE IF TangAboveThreshold(im.range_mat[from], im.range_mat[to],
                                neighborIterator[n][1] = 0)
          THEN [st EXCEPT !.queue = PushBack(cap, @, to),
                          !.lineCountFlag[to[1]] = TRUE,
                          !.all_pushed = PushBack(cap, @, to),
                          !.pushes = @ + 1]
          ELSE st

\* One neighbour of the popped cell in the image im; st holds queue,
\* all_pushed, lineCountFlag, the label matrix and the number of push_back
\* calls on the queue so far.
VisitNeighbor(im, st, from, n) ==
  LET to == NeighborOf(im.horizon_scan, from, n)
      cap == im.N_scan * im.horizon_scan
  IN IF to[1] < 0 \/ to[1] >= im.N_scan THEN st
     ELSE IF st.label[to] # 0 THEN st
     ELSE IF TangAboveThreshold(im.range_mat[from], im.range_mat[to],
                                neighborIterator[n][1] = 0)
          THEN [st EXCEPT !.queue = PushBack(cap, @, to),
                          !.label[to] = im.label_count,
                          !.lineCountFlag[to[1]] = TRUE,
                          !.all_pushed = PushBack(cap, @, to),
                          !.pushes = @ + 1]
          ELSE st

\* One iteration of while (queue.size() > 0): the front cell is popped and
\* labelled, its four neighbours are visited.
PopFront(im, st) ==
  LET fromInd == Head(st.queue)
      popped == [st EXCEPT !.queue = Tail(@),
                           !.label[fromInd] = im.label_count]
  IN VisitNeighbor(im,
       VisitNeighbor(im,
         VisitNeighbor(im,
           VisitNeighbor(im, popped, fromInd, 1), fromInd, 2), fromInd, 3),
       fromInd, 4)

RECURSIVE BreadthFirst(_)
BreadthFirst(st) ==
  IF Len(st.queue) = 0 THEN st ELSE BreadthFirst(PopFront(ThisImage, st))

\* The locals of labelComponents(row, col) before the loop.
StartOfSearch(rows, row, col, label) ==
  [queue |-> << << row, col >> >>,
   all_pushed |-> << << row, col >> >>,
   lineCountFlag |-> [i \in rows |-> FALSE],
   label |-> label,
   pushes |-> 1]

\* The segment check after the search.
LineCount(flags) == Cardinality({i \in DOMAIN flags : flags[i]})

FeasibleSegment(size, lineCount) ==
  IF size >= FeasibleSize THEN TRUE
  ELSE IF size >= segmentValidPointNum THEN lineCount >= segmentValidLineNum
  ELSE FALSE

\* A faulty label counter that is advanced after every call.
NextLabelCountAlways(feasible, count) == count + 1

\* _label_count after the call.
NextLabelCount(feasible, count) == IF feasible THEN count + 1 ELSE count

SeqRange(s) == {s[k] : k \in 1 .. Len(s)}

LabelComponents(row, col) ==
  LET done == BreadthFirst(StartOfSearch(Rows, row, col, label_mat))
      lineCount == LineCount(done.lineCountFlag)
      feasible == FeasibleSegment(Len(done.all_pushed), lineCount)
  IN /\ label_mat' = IF feasible THEN done.label
                     ELSE [c \in Cells |->
                             IF c \in SeqRange(done.all_pushed)
                             THEN RejectedLabel ELSE done.label[c]]
     /\ label_count' = NextLabelCount(feasible, label_count)
     /\ lastCall' = [start |-> << row, col >>, all_pushed |-> done.all_pushed,
                     lineCount |-> lineCount, feasibleSegment |-> feasible,
                     label |-> label_count]

(***************************************************************************)
(* labelComponents alone, one loop iteration at a time, on every image of  *)
(* up to MaxRows rings and MaxCols columns: a cell has no return, a return *)
(* at 5 m or a return at 10 m.  The cells without a return carry the label *)
(* -1 of groundRemoval; the calls are those of cloudSegmentation.          *)
(***************************************************************************)
MaxRows == 3
MaxCols == 3

NoImage ==
  [N_scan |-> 0, horizon_scan |-> 0, range_mat |-> << >>, label_count |-> 1]
NoSearch == [st |-> StartOfSearch({}, 0, 0, << >>), pops |-> 0]

CellsOfImage(im) == (0 .. (im.N_scan - 1)) \X (0 .. (im.horizon_scan - 1))

\* The constructor's N_scan and horizontal_scan, the _range_mat of a scan
\* and the _label_mat groundRemoval leaves.
TakeImage ==
  /\ bpc = "idle"
  /\ bpc' = "segmenting"
  /\ \E n \in 1 .. MaxRows, w \in 1 .. MaxCols :
       \E r \in [(0 .. (n - 1)) \X (0 .. (w - 1)) -> {FLT_MAX, 500, 1000}] :
         /\ image' = [N_scan |-> n, horizon_scan |-> w, range_mat |-> r,
                      label_count |-> 1]
         /\ search' = [NoSearch EXCEPT !.st.label =
                         [c \in DOMAIN r |->
                            IF r[c] = FLT_MAX THEN 0 - 1 ELSE 0]]
  /\ UNCHANGED << pc, full_cloud, range_mat, ground_mat, label_mat,
                  label_count, lastCall, segmented_cloud, outlier_cloud,
                  seg_msg, ipPtr, projectionOut >>
  /\ UNCHANGED ipFrame

\* if (_label_mat(i, j) == 0) labelComponents(i, j), up to the while loop.
CallLabelComponents ==
  /\ bpc = "segmenting"
  /\ bpc' = "searching"
  /\ LET open == {c \in CellsOfImage(image) : search.st.label[c] = 0}
     IN /\ open # {}
        /\ LET c == CHOOSE u \in open : \A v \in open :
                       u[1] * image.horizon_scan + u[2]
                         <= v[1] * image.horizon_scan + v[2]
           IN search' = [st |-> StartOfSearch(0 .. (image.N_scan - 1), c[1],
                                              c[2], search.st.label),
                         pops |-> 0]
  /\ UNCHANGED << pc, full_cloud, range_mat, ground_mat, label_mat,
                  label_count, lastCall, segmented_cloud, outlier_cloud,
                  seg_msg, ipPtr, projectionOut, image >>
  /\ UNCHANGED ipFrame

\* One iteration of the while loop.
SearchStep ==
  /\ bpc = "searching"
  /\ Len(search.st.queue) > 0
  /\ search' = [st |-> PopFront(image, search.st), pops |-> search.pops + 1]
  /\ UNCHANGED << pc, full_cloud, range_mat, ground_mat, label_mat,
                  label_count, lastCall, segmented_cloud, outlier_cloud,
                  seg_msg, ipPtr, projectionOut, bpc, image >>
  /\ UNCHANGED ipFrame

\* The segment check and the marking after the loop.
EndSearch ==
  /\ bpc = "searching"
  /\ Len(search.st.queue) = 0
  /\ bpc' = "segmenting"
  /\ LET feasible == FeasibleSegment(Len(search.st.all_pushed),
                                     LineCount(search.st.lineCountFlag))
     IN /\ image' = [image EXCEPT !.label_count = NextLabelCount(feasible, @)]
        /\ search' = [search EXCEPT !.st.label =
                        IF feasible THEN @
                        ELSE [c \in DOMAIN @ |->
                                IF c \in SeqRange(search.st.all_pushed)
                                THEN RejectedLabel ELSE @[c]]]
  /\ UNCHANGED << pc, full_cloud, range_mat, ground_mat, label_mat,
                  label_count, lastCall, segmented_cloud, outlier_cloud,
                  seg_msg, ipPtr, projectionOut >>
  /\ UNCHANGED ipFrame

(***************************************************************************)
(* cloudSegmentation, first loop: the next cell in row-major order whose   *)
(* label is 0 starts a labelComponents call.                               *)
(***************************************************************************)
RowMajor(c) == c[1] * Horizon_SCAN + c[2]

Unlabelled == {c \in Cells : label_mat[c] = 0}

SegmentNext ==
  /\ pc \in {"ground", "labelling"}
  /\ Unlabelled # {}
  /\ pc' = "labelling"
  /\ LET c == CHOOSE u \in Unlabelled :
                \A v \in Unlabelled : RowMajor(u) <= RowMajor(v)
     IN LabelComponents(c[1], c[2])
  /\ UNCHANGED << full_cloud, range_mat, ground_mat, segmented_cloud,
                  outlier_cloud, seg_msg >>
  /\ UNCHANGED << ipPtr, projectionOut, bfsVars >>
  /\ UNCHANGED ipFrame

(***************************************************************************)
(* cloudSegmentation, second loop: the segmented cloud for the odometry.   *)
(***************************************************************************)
\* A faulty ground filter without the two margins.
GroundSkippedNoMargin(j) == j % GroundColStep # 0

\* j % 5 != 0 && j > 5 && j < _horizon_scan - 5
GroundSkipped(j) ==
  /\ j % GroundColStep # 0
  /\ j > 5
  /\ j < Horizon_SCAN - 5

\* i > groundScanInd && j % 5 == 0
OutlierKept(i, j) == i > groundScanInd /\ j % GroundColStep = 0

\* Faulty stores that take the range of the ring's first column.
StoreSegInfoFirstCol(msg, k, i, j) ==
  [msg EXCEPT !.segmentedCloudGroundFlag[k] = (ground_mat[<< i, j >>] = 1),
              !.segmentedCloudColInd[k] = j,
              !.segmentedCloudRange[k] = range_mat[<< i, 0 >>]]

\* The three stores at index sizeOfSegCloud.
StoreSegInfo(msg, k, i, j) ==
  [msg EXCEPT !.segmentedCloudGroundFlag[k] = (ground_mat[<< i, j >>] = 1),
              !.segmentedCloudColInd[k] = j,
              !.segmentedCloudRange[k] = range_mat[<< i, j >>]]

\* The body of the inner loop for cell (i, j); st holds sizeOfSegCloud, the
\* two clouds and the message.
ExtractCell(st, i, j) ==
  IF ~(label_mat[<< i, j >>] > 0 \/ ground_mat[<< i, j >>] = 1) THEN st
  ELSE IF label_mat[<< i, j >>] = RejectedLabel
       THEN IF OutlierKept(i, j)
            THEN [st EXCEPT !.outlier = Append(@, full_cloud[<< i, j >>])]
            ELSE st
  ELSE IF ground_mat[<< i, j >>] = 1 /\ GroundSkipped(j) THEN st
  ELSE [st EXCEPT !.msg = StoreSegInfo(@, st.sizeOfSegCloud, i, j),
                  !.segmented = Append(@, full_cloud[<< i, j >>]),
                  !.sizeOfSegCloud = @ + 1]

RECURSIVE ExtractCols(_, _, _)
ExtractCols(st, i, j) ==
  IF st.sizeOfSegCloud <= cloud_size /\ j < Horizon_SCAN
  THEN ExtractCols(ExtractCell(st, i, j), i, j + 1)
  ELSE st

\* startRingIndex[i] = sizeOfSegCloud - 1 + 5 before the ring's cells.
StartRingIndex(sizeOfSegCloud) == sizeOfSegCloud - 1 + RingInset

\* endRingIndex[i] = sizeOfSegCloud - 1 - 5 after them.
EndRingIndex(sizeOfSegCloud) == sizeOfSegCloud - 1 - RingInset

RECURSIVE ExtractRows(_, _)
ExtractRows(st, i) ==
  IF st.sizeOfSegCloud > cloud_size \/ i >= N_scan THEN st
  ELSE LET begun == [st EXCEPT !.msg.startRingIndex[i] =
                                  StartRingIndex(st.sizeOfSegCloud)]
           filled == ExtractCols(begun, i, 0)
       IN ExtractRows([filled EXCEPT !.msg.endRingIndex[i] =
                                        EndRingIndex(filled.sizeOfSegCloud)],
                      i + 1)

ExtractSegmentedCloud ==
  /\ pc \in {"ground", "labelling"}
  /\ Unlabelled = {}
  /\ pc' = "segmented"
  /\ LET done == ExtractRows([sizeOfSegCloud |-> 0,
                              segmented |-> segmented_cloud,
                              outlier |-> outlier_cloud,
                              msg |-> seg_msg], 0)
     IN /\ segmented_cloud' = done.segmented
        /\ outlier_cloud' = done.outlier
        /\ seg_msg' = done.msg
  /\ UNCHANGED << full_cloud, range_mat, ground_mat, label_mat, label_count,
                  lastCall >>
  /\ UNCHANGED << ipPtr, projectionOut, bfsVars >>
  /\ UNCHANGED ipFrame

(***************************************************************************)
(* publishClouds: the clouds and the message are swapped into a            *)
(* ProjectionOut and sent; the handler returns.                            *)
(***************************************************************************)
\* A default-constructed cloud_info message and a new, empty cloud are what
\* the swaps leave behind.
EmptySegMsg ==
  [startRingIndex |-> << >>, endRingIndex |-> << >>,
   segmentedCloudGroundFlag |-> << >>, segmentedCloudColInd |-> << >>,
   segmentedCloudRange |-> << >>]

\* out.segmented_cloud = _segmented_cloud: the sender keeps what it sends.
SharedOut(p, a, b) == [out |-> p, members |-> p]

\* out.outlier_cloud.reset(new ...); out.segmented_cloud.reset(new ...);
\* the three swaps: the members p go to the message, the two new clouds a
\* and b and the empty arrays of the default message stay.
SwappedOut(p, a, b) ==
  [out |-> p,
   members |-> [outlier_cloud |-> a, segmented_cloud |-> b, seg_msg |-> 0]]

PublishClouds ==
  /\ pc = "segmented"
  /\ pc' = "idle"
  /\ seg_msg' = EmptySegMsg
  /\ outlier_cloud' = << >>
  /\ segmented_cloud' = << >>
  /\ LET swapped == SwappedOut(ipPtr, New(Live, 1), New(Live, 2))
     IN /\ projectionOut' = swapped.out
        /\ ipPtr' = swapped.members
  /\ UNCHANGED bfsVars
  /\ UNCHANGED << full_cloud, range_mat, ground_mat, label_mat, label_count,
                  lastCall >>
  /\ UNCHANGED ipFrame

\* After the constructor: the clouds are empty, _full_cloud is resized to
\* cloud_size default points, the matrices are not sized yet (kept at the
\* values the first resetParameters gives them).
InitIP ==
  /\ pc = "idle"
  /\ full_cloud = [c \in Cells |-> [nanPoint EXCEPT !.nan = FALSE]]
  /\ range_mat = [c \in Cells |-> FLT_MAX]
  /\ ground_mat = [c \in Cells |-> 0]
  /\ label_mat = [c \in Cells |-> 0]
  /\ label_count = 1
  /\ lastCall = NoCall
  /\ segmented_cloud = << >>
  /\ outlier_cloud = << >>
  /\ seg_msg = EmptySegMsg
  /\ ipPtr = [outlier_cloud |-> 8, segmented_cloud |-> 9, seg_msg |-> 0]
  /\ projectionOut = NoOut
  /\ bpc = "idle"
  /\ image = NoImage
  /\ search = NoSearch

CloudHandler == \E p \in ScanParams : ProjectPointCloud(p)

(***************************************************************************)
(* FeatureAssociation.                                                     *)
(*                                                                         *)
(* The geometry of a scan is reduced to what the association path          *)
(* branches on: the sizes of the feature clouds, the number of             *)
(* correspondences of a solver iteration, the eigenvalues of matAtA and    *)
(* the solution matX.  No IMU message arrives: every IMU term is zero.     *)
(*                                                                         *)
(* Units: an angle of transformCur, transformSum or matX is a multiple of  *)
(* 0.05 degree, a translation a multiple of 0.05 cm, so that the           *)
(* convergence test deltaR < 0.1 && deltaT < 0.1 is a test against 2.      *)
(***************************************************************************)
MaxScans == 3
MaxCur == 2
MaxNaN == 1

IterLimit == 25
EignThre == 10
MinCornerLast == 10
MinSurfLast == 100
MinOri == 10
StepThreshold == 2

Pose == 0 .. 5
ZeroPose == [i \in Pose |-> 0]

\* The sizes of cornerPointsLessSharp and surfPointsLessFlat that
\* extractFeatures leaves, around the two thresholds.
FeatureSizes == { << MinCornerLast - 1, MinSurfLast + 1 >>,
                  << MinCornerLast, MinSurfLast >>,
                  << MinCornerLast + 1, MinSurfLast + 1 >> }

\* The sizes of laserCloudOri after a correspondence search.
OriSizes == {MinOri - 1, MinOri}

\* The eigenvalues of matAtA as SelfAdjointEigenSolver returns them: in
\* increasing order.
EigenValues == {5, 50}
EigenTriples == { e \in EigenValues \X EigenValues \X EigenValues :
                    e[1] <= e[2] /\ e[2] <= e[3] }

\* The solution matX of the normal equations: a step, or a vector of NaN.
Steps == { << 0, 0, 0 >>, << 1, 1, 0 >>, << 2, 0, 0 >> }
NaNX == [nan |-> TRUE, v |-> << 0, 0, 0 >>]
MatXSet == {[nan |-> FALSE, v |-> w] : w \in Steps} \cup {NaNX}

\* matP in the basis of the eigenvectors: the diagonal of 0 and 1.
PSet == [1 .. 3 -> {0, 1}]
IdentityP == [i \in 1 .. 3 |-> 1]

NoPass == [name |-> "none", ran0 |-> FALSE, matE |-> << >>,
           matP |-> IdentityP, isDegenerate |-> FALSE, skipped |-> 0,
           ori |-> 0]
NoProj == [happened |-> FALSE, matP |-> IdentityP]
NoScan == [no |-> 0, bootstrap |-> FALSE, sparse |-> FALSE, solves |-> 0,
           integrations |-> 0, sumBefore |-> ZeroPose]

\* Times are in ticks of a quarter of scanPeriod.
scanPeriod == 4
imuQueLength == 2
mappingFrequencyDivider == 2

Slots == 0 .. imuQueLength - 1

\* The worker's IMU members as initializationValue and the declarations
\* leave them.
NoImu ==
  [imuPointerFront |-> 0, imuPointerLastIteration |-> 0,
   imuRollStart |-> 0, imuPitchStart |-> 0, imuVeloStart |-> 0,
   imuShiftStart |-> 0, imuRollCur |-> 0, imuPitchCur |-> 0,
   imuVeloCur |-> 0, imuShiftCur |-> 0, imuRollLast |-> 0,
   imuPitchLast |-> 0, imuVeloFromStartCur |-> 0, imuVeloFromStart |-> 0,
   imuAngularRotationCur |-> 0, imuAngularRotationLast |-> 0,
   imuAngularFromStart |-> 0]

\* The four feature clouds that are swapped: objects 1 .. 4, created apart
\* by initializationValue.  A content is the number of points, the scan
\* they were extracted from and the frame they are expressed in.
\* segmentedCloud and outlierCloud are two more clouds, replaced by the
\* clouds of the first message; segInfo is the buffer of the arrays of the
\* message moved from.
Objects == 1 .. 4
EmptyCloud == [n |-> 0, of |-> 0, frame |-> "none"]
InitPtr == [cornerPointsLessSharp |-> 1, surfPointsLessFlat |-> 2,
            laserCloudCornerLast |-> 3, laserCloudSurfLast |-> 4,
            segmentedCloud |-> 5, outlierCloud |-> 6, segInfo |-> 0]

\* A KD-tree: the object given to setInputCloud and the content indexed.
NoTree == [object |-> 0, content |-> EmptyCloud]
TreeOf(o, c) == [object |-> o, content |-> c[o]]

NoMessage ==
  [sentinel |-> FALSE, corner |-> 0, surf |-> 0, stamp |-> 0,
   outlier_cloud |-> 0, segmented_cloud |-> 0, seg_msg |-> 0]

\* initializationValue
InitFA ==
  /\ fpc = "idle"
  /\ systemInitedLM = FALSE
  /\ transformCur = ZeroPose
  /\ transformSum = ZeroPose
  /\ laserCloudCornerLastNum = 0
  /\ laserCloudSurfLastNum = 0
  /\ cornerPointsLessSharpNum = 0
  /\ surfPointsLessFlatNum = 0
  /\ isDegenerate = FALSE
  /\ iterCount = 0
  /\ pass = NoPass
  /\ proj = NoProj
  /\ scan = NoScan

\* while (ros::ok())
LoopTest ==
  /\ fpc = "idle"
  /\ fpc' = IF rosOk THEN "receiving" ELSE "returned"
  /\ UNCHANGED << systemInitedLM, transformCur, transformSum,
                  laserCloudCornerLastNum, laserCloudSurfLastNum,
                  cornerPointsLessSharpNum, surfPointsLessFlatNum,
                  isDegenerate, iterCount, pass, proj, scan >>
  /\ UNCHANGED faFrame

\* _input_channel.receive(projection); if (!ros::ok()) break;
Received(m) ==
  /\ fpc = "receiving"
  /\ fpc' = IF rosOk THEN "received" ELSE "returned"
  /\ projection' = m
  /\ UNCHANGED << systemInitedLM, transformCur, transformSum,
                  laserCloudCornerLastNum, laserCloudSurfLastNum,
                  cornerPointsLessSharpNum, surfPointsLessFlatNum,
                  isDegenerate, iterCount, pass, proj, scan >>
  /\ UNCHANGED << imu_mutex, imu, timeScanCur, cycle_count, clouds, ptr,
                  kdtree, odometry, forwarded, association, lockView >>
  /\ UNCHANGED << ipVars, efVars, imuVars >>

\* The projection of a scan arrives: its less sharp and less flat features
\* will be c and n points, its stamp is lag ticks before the latest IMU
\* stamp.
ReceiveScan(c, n, lag) ==
  /\ sentinel = "none"
  /\ scan.no < MaxScans
  /\ Received([sentinel |-> FALSE, corner |-> c, surf |-> n,
               stamp |-> clock - lag, outlier_cloud |-> New(Live, 1),
               segmented_cloud |-> New(Live, 2), seg_msg |-> New(Live, 3)])
  /\ UNCHANGED lifeVars

\* The ring buffer as the worker finds it.
RingBuffer ==
  [imuPointerLast |-> imuPointerLast, imuTime |-> imuTime,
   imuRoll |-> imuRoll, imuPitch |-> imuPitch, imuAcc |-> imuAcc,
   imuVelo |-> imuVelo, imuShift |-> imuShift,
   imuAngularVelo |-> imuAngularVelo,
   imuAngularRotation |-> imuAngularRotation]

\* lock_guard lock(_imu_mutex): a mutex is taken when it is free.
MutexIgnored(m) == TRUE

MutexFree(m) == m = "free"

\* std::lock_guard<std::mutex> lock(_imu_mutex) of the worker, up to
\* timeScanCur = cloudHeader.stamp.toSec().
LockWorker ==
  /\ fpc = "received"
  /\ MutexFree(imu_mutex)
  /\ imu_mutex' = "worker"
  /\ fpc' = "locked"
  /\ timeScanCur' = projection.stamp
  /\ lockView' = RingBuffer
  /\ scan' = [NoScan EXCEPT !.no = scan.no + 1,
                            !.bootstrap = ~systemInitedLM,
                            !.sumBefore = transformSum]
  /\ pass' = NoPass
  /\ proj' = NoProj
  /\ UNCHANGED << systemInitedLM, transformCur, transformSum,
                  laserCloudCornerLastNum, laserCloudSurfLastNum,
                  cornerPointsLessSharpNum, surfPointsLessFlatNum,
                  isDegenerate, iterCount >>
  /\ ptr' = [ptr EXCEPT !.outlierCloud = projection.outlier_cloud,
                        !.segmentedCloud = projection.segmented_cloud,
                        !.segInfo = projection.seg_msg]
  /\ projection' = [projection EXCEPT !.seg_msg = 0]
  /\ UNCHANGED << imu, cycle_count, clouds, kdtree, odometry, forwarded,
                  association >>
  /\ UNCHANGED << ipVars, efVars, imuVars, lifeVars >>

\* What a read before the first element of one of the ring arrays returns:
\* imuPointerLastIteration is -1 after a scan that was deskewed before the
\* first IMU sample, and the members in front of the arrays hold anything.
Garbage == {0, 1000}

\* A ring array with the element that index -1 reads.
Ext(a, g) == [k \in {-1} \cup Slots |-> IF k = -1 THEN g ELSE a[k]]

\* The search of adjustDistortion for the slot of time t:
\*   while (imuPointerFront != imuPointerLast) {
\*     if (t < imuTime[imuPointerFront]) break;
\*     imuPointerFront = (imuPointerFront + 1) % imuQueLength; }
RECURSIVE FrontFrom(_, _, _)
FrontFrom(f, t, g) ==
  IF f = imuPointerLast THEN f
  ELSE IF t < Ext(imuTime, g)[f] THEN f
  ELSE FrontFrom((f + 1) % imuQueLength, t, g)

\* A quotient rounded towards zero, as the product with ratioFront and
\* ratioBack is rounded to the unit.
Quot(a, b) == IF b < 0 THEN TruncDiv(0 - a, 0 - b) ELSE TruncDiv(a, b)

\* The value of ring array a at time t: the slot f itself when t is later
\* than its time, else the interpolation of slot f and the slot before it.
AtTime(a, f, t, g) ==
  IF t > Ext(imuTime, g)[f] THEN Ext(a, g)[f]
  ELSE LET b == (f + imuQueLength - 1) % imuQueLength
           tf == Ext(imuTime, g)[f]
           tb == imuTime[b]
       IN Quot(Ext(a, g)[f] * (t - tb) + a[b] * (tf - t), tf - tb)

\* adjustDistortion on a cloud whose first point is at relTime 0 and whose
\* last point is at relTime 1: the IMU members after the loop.  Rotations
\* are to first order in the angles.
Deskewed(m, t, g) ==
  IF imuPointerLast < 0
    THEN [m EXCEPT !.imuPointerLastIteration = imuPointerLast]
    ELSE LET f0 == FrontFrom(m.imuPointerLastIteration, t, g)
             t1 == t + scanPeriod
             f1 == FrontFrom(m.imuPointerLastIteration, t1, g)
             rot == AtTime(imuAngularRotation, f0, t, g)
         IN [m EXCEPT
               !.imuPointerFront = f1,
               !.imuPointerLastIteration = imuPointerLast,
               !.imuRollStart = AtTime(imuRoll, f0, t, g),
               !.imuPitchStart = AtTime(imuPitch, f0, t, g),
               !.imuVeloStart = AtTime(imuVelo, f0, t, g),
               !.imuShiftStart = AtTime(imuShift, f0, t, g),
               !.imuAngularRotationCur = rot,
               !.imuAngularFromStart = rot - m.imuAngularRotationLast,
               !.imuAngularRotationLast = rot,
               !.imuRollCur = AtTime(imuRoll, f1, t1, g),
               !.imuPitchCur = AtTime(imuPitch, f1, t1, g),
               !.imuVeloCur = AtTime(imuVelo, f1, t1, g),
               !.imuShiftCur = AtTime(imuShift, f1, t1, g),
               !.imuVeloFromStartCur =
                  AtTime(imuVelo, f1, t1, g) - AtTime(imuVelo, f0, t, g)]

\* extractFeatures clears cornerPointsLessSharp and surfPointsLessFlat and
\* fills them with the features of this scan, in the frame of its start.
Extracted(c, n) ==
  [clouds EXCEPT
     ![ptr.cornerPointsLessSharp] =
        [n |-> c, of |-> scan.no, frame |-> "start"],
     ![ptr.surfPointsLessFlat] =
        [n |-> n, of |-> scan.no, frame |-> "start"]]

\* adjustDistortion, calculateSmoothness, markOccludedPoints,
\* extractFeatures and publishCloud on the message of a scan.
ExtractScan ==
  /\ fpc = "locked"
  /\ ~projection.sentinel
  /\ \E g \in (IF imuPointerLast >= 0 /\ imu.imuPointerLastIteration < 0
                THEN Garbage ELSE {0}) :
       imu' = Deskewed(imu, timeScanCur, g)
  /\ fpc' = "extracted"
  /\ clouds' = Extracted(projection.corner, projection.surf)
  /\ cornerPointsLessSharpNum' = projection.corner
  /\ surfPointsLessFlatNum' = projection.surf
  /\ UNCHANGED << systemInitedLM, transformCur, transformSum,
                  laserCloudCornerLastNum, laserCloudSurfLastNum,
                  isDegenerate, iterCount, pass, proj, scan >>
  /\ UNCHANGED << imu_mutex, projection, timeScanCur, cycle_count, ptr,
                  kdtree, odometry, forwarded, association, lockView >>
  /\ UNCHANGED << ipVars, efVars, imuVars, lifeVars >>

\* The same steps on the message of the destructor: segmentedCloud is a
\* null pointer and adjustDistortion reads segmentedCloud->points.size().
\* The behaviour is undefined: the process is stopped by the access, or the
\* read yields an empty cloud and the message is processed as a scan
\* without points.
ExtractSentinel ==
  /\ fpc = "locked"
  /\ projection.sentinel
  /\ \/ /\ fpc' = "crashed"
        /\ UNCHANGED << imu, clouds, cornerPointsLessSharpNum,
                        surfPointsLessFlatNum >>
     \/ /\ fpc' = "extracted"
        /\ imu' = [imu EXCEPT !.imuPointerLastIteration = imuPointerLast]
        /\ clouds' = Extracted(0, 0)
        /\ cornerPointsLessSharpNum' = 0
        /\ surfPointsLessFlatNum' = 0
  /\ UNCHANGED << systemInitedLM, transformCur, transformSum,
                  laserCloudCornerLastNum, laserCloudSurfLastNum,
                  isDegenerate, iterCount, pass, proj, scan >>
  /\ UNCHANGED << imu_mutex, projection, timeScanCur, cycle_count, ptr,
                  kdtree, odometry, forwarded, association, lockView >>
  /\ UNCHANGED << ipVars, efVars, imuVars, lifeVars >>

\* The two swaps of checkSystemInitialization and of publishCloudsLast:
\*   laserCloudTemp = cornerPointsLessSharp;
\*   cornerPointsLessSharp = laserCloudCornerLast;
\*   laserCloudCornerLast = laserCloudTemp;           and the same for surf.
AliasBuffers(p) ==
  [p EXCEPT !.laserCloudCornerLast = p.cornerPointsLessSharp,
            !.laserCloudSurfLast = p.surfPointsLessFlat]

SwapBuffers(p) ==
  [p EXCEPT !.cornerPointsLessSharp = p.laserCloudCornerLast,
            !.laserCloudCornerLast = p.cornerPointsLessSharp,
            !.surfPointsLessFlat = p.laserCloudSurfLast,
            !.laserCloudSurfLast = p.surfPointsLessFlat]

\* transformSum[0] += imuPitchStart; transformSum[2] += imuRollStart;
SeededSwapped(sum, m) ==
  [sum EXCEPT ![0] = @ + m.imuRollStart, ![2] = @ + m.imuPitchStart]

Seeded(sum, m) ==
  [sum EXCEPT ![0] = @ + m.imuPitchStart, ![2] = @ + m.imuRollStart]

\* The end of an iteration of the loop of runFeatureAssociation: the
\* lock_guard is destroyed.
EndOfScan ==
  /\ fpc' = "idle"
  /\ imu_mutex' = "free"
  /\ scan' = [NoScan EXCEPT !.no = scan.no, !.bootstrap = scan.bootstrap,
                            !.integrations = scan.integrations]

\* if (!systemInitedLM)
TakesBootstrapAlways(inited) == TRUE

TakesBootstrap(inited) == ~inited

\* checkSystemInitialization and continue: the feature clouds of the first
\* scan are swapped with the (empty) targets, both KD-trees are built,
\* transformSum[0] and [2] receive imuPitchStart and imuRollStart, and
\* nothing else is done with the scan.
CheckSystemInitialization ==
  /\ fpc = "extracted"
  /\ TakesBootstrap(systemInitedLM)
  /\ ptr' = SwapBuffers(ptr)
  /\ kdtree' = [corner |-> TreeOf(ptr'.laserCloudCornerLast, clouds),
                surf |-> TreeOf(ptr'.laserCloudSurfLast, clouds)]
  /\ laserCloudCornerLastNum' = clouds[ptr'.laserCloudCornerLast].n
  /\ laserCloudSurfLastNum' = clouds[ptr'.laserCloudSurfLast].n
  /\ cornerPointsLessSharpNum' = clouds[ptr'.cornerPointsLessSharp].n
  /\ surfPointsLessFlatNum' = clouds[ptr'.surfPointsLessFlat].n
  /\ transformSum' = Seeded(transformSum, imu)
  /\ systemInitedLM' = TRUE
  /\ EndOfScan
  /\ UNCHANGED << transformCur, isDegenerate, iterCount, pass, proj >>
  /\ UNCHANGED << imu, projection, timeScanCur, cycle_count, clouds,
                  odometry, forwarded, association, lockView >>
  /\ UNCHANGED << ipVars, efVars, imuVars, lifeVars >>

\* updateInitialGuess: the IMU terms of the scan become the guess.  Only
\* the x components of imuAngularFromStart and of imuVeloFromStart can be
\* other than zero.
UpdateInitialGuess ==
  /\ fpc = "extracted"
  /\ ~TakesBootstrap(systemInitedLM)
  /\ fpc' = "guessed"
  /\ imu' = [imu EXCEPT !.imuPitchLast = imu.imuPitchCur,
                        !.imuRollLast = imu.imuRollCur,
                        !.imuVeloFromStart = imu.imuVeloFromStartCur]
  /\ transformCur' =
       [i \in Pose |->
          IF i \in 0 .. 2 /\ imu.imuAngularFromStart # 0
            THEN (IF i = 2 THEN 0 - imu.imuAngularFromStart ELSE 0)
          ELSE IF i = 3 /\ imu.imuVeloFromStartCur # 0
            THEN transformCur[3] - imu.imuVeloFromStartCur * scanPeriod
          ELSE transformCur[i]]
  /\ UNCHANGED << systemInitedLM, transformSum,
                  laserCloudCornerLastNum, laserCloudSurfLastNum,
                  cornerPointsLessSharpNum, surfPointsLessFlatNum,
                  isDegenerate, iterCount, pass, proj, scan >>
  /\ UNCHANGED << imu_mutex, projection, timeScanCur, cycle_count, clouds,
                  ptr, kdtree, odometry, forwarded, association, lockView >>
  /\ UNCHANGED << ipVars, efVars, imuVars, lifeVars >>

\* laserCloudCornerLastNum < 10 || laserCloudSurfLastNum < 100
SparseTargets ==
  laserCloudCornerLastNum < MinCornerLast \/ laserCloudSurfLastNum < MinSurfLast

\* updateTransformation, the early return.
SkipSolve ==
  /\ fpc = "guessed"
  /\ SparseTargets
  /\ fpc' = "solved"
  /\ scan' = [scan EXCEPT !.sparse = TRUE]
  /\ UNCHANGED << systemInitedLM, transformCur, transformSum,
                  laserCloudCornerLastNum, laserCloudSurfLastNum,
                  cornerPointsLessSharpNum, surfPointsLessFlatNum,
                  isDegenerate, iterCount, pass, proj >>
  /\ UNCHANGED faFrame

\* The entry of one of the two loops of updateTransformation.
StartPass(from, name) ==
  /\ fpc = from
  /\ fpc' = name
  /\ iterCount' = 0
  /\ pass' = [NoPass EXCEPT !.name = name]
  /\ proj' = NoProj
  /\ UNCHANGED << systemInitedLM, transformCur, transformSum,
                  laserCloudCornerLastNum, laserCloudSurfLastNum,
                  cornerPointsLessSharpNum, surfPointsLessFlatNum,
                  isDegenerate, scan >>
  /\ UNCHANGED faFrame

StartSurfPass == ~SparseTargets /\ StartPass("guessed", "surf")
StartCornerPass == StartPass("surfDone", "corner")

PassDone(name) == IF name = "surf" THEN "surfDone" ELSE "cornerDone"

\* laserCloudOri->points.size() < 10: continue.  The search depends on
\* transformCur and on iterCount only: after a skipped iteration
\* transformCur is the same and the weight s is no larger, so no
\* correspondence is gained and every later iteration of the loop is
\* skipped as well, up to iterCount = 25.
SkipIterations(name, n) ==
  /\ fpc = name
  /\ n < MinOri
  /\ iterCount < IterLimit
  /\ fpc' = PassDone(name)
  /\ iterCount' = 0
  /\ pass' = [pass EXCEPT !.skipped = IterLimit - iterCount, !.ori = n]
  /\ UNCHANGED << systemInitedLM, transformCur, transformSum,
                  laserCloudCornerLastNum, laserCloudSurfLastNum,
                  cornerPointsLessSharpNum, surfPointsLessFlatNum,
                  isDegenerate, proj, scan >>
  /\ UNCHANGED faFrame

\* The eigenvalue loop of iteration 0, from i = 2 down (here 3 down to 1):
\* the rows of matV2 it sets to zero before it breaks.
RECURSIVE ZeroedRows(_, _)
ZeroedRows(matE, i) ==
  IF i < 1 THEN {}
  ELSE IF matE[i] < EignThre THEN {i} \cup ZeroedRows(matE, i - 1)
  ELSE {}

\* matP = matV.inverse() * matV2
ProjectionOf(matE) == [i \in 1 .. 3 |-> IF i \in ZeroedRows(matE, 3) THEN 0 ELSE 1]

\* matX = matP * matX2: a NaN in matX2 makes every product a NaN.
Project(matP, matX) ==
  IF matX.nan THEN NaNX
  ELSE [nan |-> FALSE, v |-> [i \in 1 .. 3 |-> matP[i] * matX.v[i]]]

\* The entries of transformCur that a pass updates with matX(0..2).
Updated(name) == IF name = "surf" THEN << 0, 2, 4 >> ELSE << 1, 3, 5 >>

\* transformCur[i] += matX(i % 3) for all six entries.
AddStepAll(cur, name, matX) ==
  [i \in Pose |-> IF matX.nan THEN 0 ELSE cur[i] + matX.v[(i % 3) + 1]]

\* transformCur[..] += matX(..); a NaN entry is then set to 0.
AddStep(cur, name, matX) ==
  [i \in Pose |->
     IF \E k \in 1 .. 3 : Updated(name)[k] = i
     THEN IF matX.nan THEN 0
          ELSE cur[i] + matX.v[CHOOSE k \in 1 .. 3 : Updated(name)[k] = i]
     ELSE cur[i]]

\* deltaR < 0.1 && deltaT < 0.1; a comparison with NaN is false.  The surf
\* pass has two angles and one translation, the corner pass one angle and
\* two translations.
SmallStep(name, matX) ==
  /\ ~matX.nan
  /\ IF name = "surf"
     THEN /\ matX.v[1] * matX.v[1] + matX.v[2] * matX.v[2]
               < StepThreshold * StepThreshold
          /\ matX.v[3] * matX.v[3] < StepThreshold * StepThreshold
     ELSE /\ matX.v[1] * matX.v[1] < StepThreshold * StepThreshold
          /\ matX.v[2] * matX.v[2] + matX.v[3] * matX.v[3]
               < StepThreshold * StepThreshold

\* The values the local matP can hold when it is read: the one assigned in
\* this call at iteration 0, any value at a later iteration, where the
\* local is not initialised.
MatPValues(matE) == IF iterCount = 0 THEN {ProjectionOf(matE)} ELSE PSet

\* calculateTransformationSurf / calculateTransformationCorner(iterCount)
\* with the solution matX2 and, at iteration 0, the eigenvalues matE.
CalculateTransformation(name, n, matX2, matE, matP) ==
  LET degenerate == IF iterCount = 0 THEN ZeroedRows(matE, 3) # {}
                    ELSE isDegenerate
      matX == IF degenerate THEN Project(matP, matX2) ELSE matX2
      cur == AddStep(transformCur, name, matX)
  IN /\ fpc = name
     /\ n >= MinOri
     /\ matX2.nan => iterCount < MaxNaN
     /\ matP \in MatPValues(matE)
     /\ \A i \in Pose : cur[i] <= MaxCur
     /\ isDegenerate' = degenerate
     /\ pass' = [(IF iterCount = 0
                 THEN [pass EXCEPT !.ran0 = TRUE, !.matE = matE,
                                   !.matP = matP,
                                   !.isDegenerate = degenerate]
                 ELSE pass) EXCEPT !.ori = n]
     /\ proj' = IF degenerate THEN [happened |-> TRUE, matP |-> matP]
                ELSE proj
     /\ transformCur' = cur
     /\ scan' = [scan EXCEPT !.solves = 1]
     /\ IF SmallStep(name, matX) \/ iterCount + 1 >= IterLimit
        THEN fpc' = PassDone(name) /\ iterCount' = 0
        ELSE fpc' = name /\ iterCount' = iterCount + 1
     /\ UNCHANGED << systemInitedLM, transformSum, laserCloudCornerLastNum,
                     laserCloudSurfLastNum, cornerPointsLessSharpNum,
                     surfPointsLessFlatNum >>
     /\ UNCHANGED faFrame

\* One iteration of a loop of updateTransformation.  matAtA is examined at
\* iteration 0 only; matP matters only when the step is projected.
SolveIteration(name) ==
  \E n \in OriSizes, matX2 \in MatXSet :
    \E matE \in (IF iterCount = 0 THEN EigenTriples
                 ELSE {<< 50, 50, 50 >>}) :
      \E matP \in (IF iterCount = 0 \/ isDegenerate THEN PSet
                   ELSE {IdentityP}) :
        CalculateTransformation(name, n, matX2, matE, matP)

\* Solutions that take the first updated entry of transformCur up and down
\* by a step that is not small, so that a loop of updateTransformation
\* goes on to its limit; matAtA is well conditioned.
SwingSteps == { << 0, 0, 0 >>, << StepThreshold, 0, 0 >>,
                << 0 - StepThreshold, 0, 0 >> }
SwingSet == {[nan |-> FALSE, v |-> w] : w \in SwingSteps} \cup {NaNX}

SolveSwing(name) ==
  \E matX2 \in SwingSet :
    /\ transformCur[Updated(name)[1]] + matX2.v[1] >= 0 - MaxCur
    /\ CalculateTransformation(name, MinOri, matX2, << 50, 50, 50 >>,
                               IdentityP)

SurfSwing == SolveSwing("surf")
CornerSwing == SolveSwing("corner")

SurfSkip == \E n \in OriSizes : SkipIterations("surf", n)
SurfSolve == SolveIteration("surf")
CornerSkip == \E n \in OriSizes : SkipIterations("corner", n)
CornerSolve == SolveIteration("corner")

\* integrateTransformation, to first order in the angles: the rotation
\* transformSum[0..2] is composed with -transformCur[0..2], the IMU rotation
\* of the start of the scan is replaced by the one of its end
\* (PluginIMURotation), and the translation transformCur[3..5] is
\* subtracted (imuShiftFromStart is zero: ShiftToStartIMU is never called).
\* The result is transformSum exactly when transformCur is zero and the
\* IMU angles of start and end are the same.
IntegrateTransformation ==
  /\ fpc \in {"solved", "cornerDone"}
  /\ fpc' = "integrated"
  /\ transformSum' =
       [i \in Pose |->
          transformSum[i] - transformCur[i]
            + (IF i = 0 THEN imu.imuPitchLast - imu.imuPitchStart
               ELSE IF i = 2 THEN imu.imuRollLast - imu.imuRollStart
               ELSE 0)]
  /\ pass' = NoPass
  /\ proj' = NoProj
  /\ scan' = [scan EXCEPT !.integrations = @ + 1]
  /\ UNCHANGED << systemInitedLM, transformCur, laserCloudCornerLastNum,
                  laserCloudSurfLastNum, cornerPointsLessSharpNum,
                  surfPointsLessFlatNum, isDegenerate, iterCount >>
  /\ UNCHANGED faFrame

\* publishOdometry: the pose transformSum is published with the stamp of
\* the scan.
PublishOdometry ==
  /\ fpc = "integrated"
  /\ fpc' = "odometry"
  /\ odometry' = Append(odometry, scan.no)
  /\ UNCHANGED << systemInitedLM, transformCur, transformSum,
                  laserCloudCornerLastNum, laserCloudSurfLastNum,
                  cornerPointsLessSharpNum, surfPointsLessFlatNum,
                  isDegenerate, iterCount, pass, proj, scan >>
  /\ UNCHANGED << imu_mutex, imu, projection, timeScanCur, cycle_count,
                  clouds, ptr, kdtree, forwarded, association, lockView >>
  /\ UNCHANGED << ipVars, efVars, imuVars, lifeVars >>

\* TransformToEnd on every point of a feature cloud: the same points, in
\* the frame of the end of the scan.
ToEnd(c) == [c EXCEPT !.frame = "end"]

\* publishCloudsLast: the feature clouds of this scan are transformed to
\* the end of the scan and swapped with the targets; the KD-trees are built
\* when the new targets have more than 10 and more than 100 points.
PublishCloudsLast ==
  /\ fpc = "odometry"
  /\ fpc' = "published"
  /\ clouds' = [clouds EXCEPT
                 ![ptr.cornerPointsLessSharp] = ToEnd(@),
                 ![ptr.surfPointsLessFlat] = ToEnd(@)]
  /\ ptr' = SwapBuffers(ptr)
  /\ laserCloudCornerLastNum' = clouds'[ptr'.laserCloudCornerLast].n
  /\ laserCloudSurfLastNum' = clouds'[ptr'.laserCloudSurfLast].n
  /\ cornerPointsLessSharpNum' = clouds'[ptr'.cornerPointsLessSharp].n
  /\ surfPointsLessFlatNum' = clouds'[ptr'.surfPointsLessFlat].n
  /\ kdtree' =
       IF laserCloudCornerLastNum' > MinCornerLast
          /\ laserCloudSurfLastNum' > MinSurfLast
         THEN [corner |-> TreeOf(ptr'.laserCloudCornerLast, clouds'),
               surf |-> TreeOf(ptr'.laserCloudSurfLast, clouds')]
         ELSE kdtree
  /\ UNCHANGED << systemInitedLM, transformCur, transformSum, isDegenerate,
                  iterCount, pass, proj, scan >>
  /\ UNCHANGED << imu_mutex, imu, projection, timeScanCur, cycle_count,
                  odometry, forwarded, association, lockView >>
  /\ UNCHANGED << ipVars, efVars, imuVars, lifeVars >>

\* cycle_count++; if (cycle_count == mappingFrequencyDivider) cycle_count = 0
NextCycleCountNoReset(c) == c + 1

NextCycleCount(c) == IF c + 1 = mappingFrequencyDivider THEN 0 ELSE c + 1

\* The end of the loop body: every mappingFrequencyDivider-th time the
\* targets, the outliers and the odometry are sent to the mapping.
\* out.cloud_corner_last = laserCloudCornerLast, ...: the bundle holds
\* the clouds of the worker themselves.
SharedAssociation(p, c, a, b, d) ==
  [cloud_corner_last |-> p.laserCloudCornerLast,
   cloud_surf_last |-> p.laserCloudSurfLast,
   cloud_outlier_last |-> p.outlierCloud,
   corner |-> c[p.laserCloudCornerLast], surf |-> c[p.laserCloudSurfLast]]

\* The three clouds a, b, d created for the bundle receive the points of
\* laserCloudCornerLast, laserCloudSurfLast and outlierCloud.
CopiedAssociation(p, c, a, b, d) ==
  [cloud_corner_last |-> a, cloud_surf_last |-> b, cloud_outlier_last |-> d,
   corner |-> c[p.laserCloudCornerLast], surf |-> c[p.laserCloudSurfLast]]

ForwardToMapping ==
  /\ fpc = "published"
  /\ cycle_count' = NextCycleCount(cycle_count)
  /\ forwarded' = IF cycle_count + 1 = mappingFrequencyDivider
                    THEN forwarded \cup {scan.no} ELSE forwarded
  /\ association' =
       IF cycle_count + 1 = mappingFrequencyDivider
         THEN CopiedAssociation(ptr, clouds, New(Live, 1), New(Live, 2),
                                New(Live, 3))
         ELSE association
  /\ EndOfScan
  /\ UNCHANGED << systemInitedLM, transformCur, transformSum,
                  laserCloudCornerLastNum, laserCloudSurfLastNum,
                  cornerPointsLessSharpNum, surfPointsLessFlatNum,
                  isDegenerate, iterCount, pass, proj >>
  /\ UNCHANGED << imu, projection, timeScanCur, clouds, ptr, kdtree,
                  odometry, lockView >>
  /\ UNCHANGED << ipVars, efVars, imuVars, lifeVars >>

RunFeatureAssociation == \E f \in FeatureSizes : ReceiveScan(f[1], f[2], 0)

(***************************************************************************)
(* FeatureAssociation: calculateSmoothness, markOccludedPoints and         *)
(* extractFeatures on the segmented cloud of one scan.  A point is its     *)
(* index in the segmented cloud; ranges are in centimetres and curvatures  *)
(* in square centimetres.  The arrays keep their values from one scan to   *)
(* the next, as the members do.                                            *)
(***************************************************************************)
MaxExtracted == 2

\* cloud_size of initializationValue: the capacity of the per-point arrays
\* and of the arrays of the seg_msg.
FA_cloud_size == 160

edgeThreshold == 1000
surfThreshold == 1000

SectorCount == 6
SharpLimit == 2
LessSharpLimit == 20
FlatLimit == 4
SmoothnessMargin == 5
NeighborSpan == 5
ColumnGap == 10
OccludedDepth == 30
OccludedRatio == 50

Index == 0 .. FA_cloud_size - 1

\* The scans: one ring of n points whose columns are stride apart, the
\* points flatLo .. flatHi on a ground patch of constant range, the others
\* off the ground on a surface whose range alternates with a growing
\* amplitude.
ExtractionScans ==
  { [n |-> 146, stride |-> 11, flatLo |-> 2, flatHi |-> 12],
    [n |-> 52, stride |-> 15, flatLo |-> 4, flatHi |-> 14],
    [n |-> 40, stride |-> 15, flatLo |-> 0, flatHi |-> 14],
    [n |-> 52, stride |-> 1, flatLo |-> 4, flatHi |-> 14] }

OnGroundPatch(s, i) == s.flatLo <= i /\ i <= s.flatHi

RangeOfPoint(s, i) ==
  IF OnGroundPatch(s, i) THEN 10000
  ELSE IF i % 2 = 1 THEN 10000 + 10 + i
  ELSE 10000 + 1 + (i % 4) \div 2

\* The seg_msg image projection sends for such a scan: ring 0 holds the n
\* points, the rings above it are empty.
SegInfoOf(s) ==
  [ size |-> s.n,
    startRingIndex |->
      [r \in Rows |-> IF r = 0 THEN StartRingIndex(0) ELSE StartRingIndex(s.n)],
    endRingIndex |-> [r \in Rows |-> EndRingIndex(s.n)],
    segmentedCloudGroundFlag |->
      [i \in Index |-> i < s.n /\ OnGroundPatch(s, i)],
    segmentedCloudColInd |->
      [i \in Index |-> IF i < s.n THEN i * s.stride ELSE 0],
    segmentedCloudRange |->
      [i \in Index |-> IF i < s.n THEN RangeOfPoint(s, i) ELSE 0] ]

NoSegInfo ==
  [ size |-> 0,
    startRingIndex |-> [r \in Rows |-> 0],
    endRingIndex |-> [r \in Rows |-> 0],
    segmentedCloudGroundFlag |-> [i \in Index |-> FALSE],
    segmentedCloudColInd |-> [i \in Index |-> 0],
    segmentedCloudRange |-> [i \in Index |-> 0] ]

NoLoop == [i |-> 0, j |-> 0, k |-> 0, largestPickedNum |-> 0,
           smallestPickedNum |-> 0]

\* initializationValue: the vectors are resized, which sets every element
\* to zero.
InitEF ==
  /\ epc = "idle"
  /\ segInfo = NoSegInfo
  /\ cloudCurvature = [i \in Index |-> 0]
  /\ cloudNeighborPicked = [i \in Index |-> 0]
  /\ cloudLabel = [i \in Index |-> 0]
  /\ cloudSmoothness = [i \in Index |-> [value |-> 0, ind |-> 0]]
  /\ cornerPointsSharp = << >>
  /\ cornerPointsLessSharp = << >>
  /\ surfPointsFlat = << >>
  /\ surfPointsLessFlat = << >>
  /\ surfPointsLessFlatScan = << >>
  /\ loop = NoLoop
  /\ picks = << >>
  /\ scansExtracted = 0

\* runFeatureAssociation takes the seg_msg of the next scan.
ReceiveSegInfo(s) ==
  /\ epc \in {"idle", "extracted"}
  /\ scansExtracted < MaxExtracted
  /\ epc' = "received"
  /\ segInfo' = SegInfoOf(s)
  /\ scansExtracted' = scansExtracted + 1
  /\ UNCHANGED << cloudCurvature, cloudNeighborPicked, cloudLabel,
                  cloudSmoothness, cornerPointsSharp, cornerPointsLessSharp,
                  surfPointsFlat, surfPointsLessFlat, surfPointsLessFlatScan,
                  loop, picks >>
  /\ UNCHANGED efFrame

ReceiveSegmentedCloud == \E s \in ExtractionScans : ReceiveSegInfo(s)

\* diffRange of calculateSmoothness at index i.
DiffRange(i) ==
  LET r == segInfo.segmentedCloudRange
  IN r[i - 5] + r[i - 4] + r[i - 3] + r[i - 2] + r[i - 1] - r[i] * 10
       + r[i + 1] + r[i + 2] + r[i + 3] + r[i + 4] + r[i + 5]

\* The indices calculateSmoothness writes.
Smoothed(i) ==
  SmoothnessMargin <= i /\ i < segInfo.size - SmoothnessMargin

CalculateSmoothness ==
  /\ epc = "received"
  /\ epc' = "smoothed"
  /\ cloudCurvature' =
       [i \in Index |-> IF Smoothed(i) THEN DiffRange(i) * DiffRange(i)
                        ELSE cloudCurvature[i]]
  /\ cloudNeighborPicked' =
       [i \in Index |-> IF Smoothed(i) THEN 0 ELSE cloudNeighborPicked[i]]
  /\ cloudLabel' = [i \in Index |-> IF Smoothed(i) THEN 0 ELSE cloudLabel[i]]
  /\ cloudSmoothness' =
       [i \in Index |->
          IF Smoothed(i)
          THEN [value |-> DiffRange(i) * DiffRange(i), ind |-> i]
          ELSE cloudSmoothness[i]]
  /\ UNCHANGED << segInfo, cornerPointsSharp, cornerPointsLessSharp,
                  surfPointsFlat, surfPointsLessFlat, surfPointsLessFlatScan,
                  loop, picks, scansExtracted >>
  /\ UNCHANGED efFrame

\* The indices the iteration i of markOccludedPoints sets to 1.
OccludedBy(i) ==
  LET r == segInfo.segmentedCloudRange
      col == segInfo.segmentedCloudColInd
      columnDiff == Abs(col[i + 1] - col[i])
      diff1 == Abs(r[i - 1] - r[i])
      diff2 == Abs(r[i + 1] - r[i])
  IN (IF columnDiff < ColumnGap
      THEN IF r[i] - r[i + 1] > OccludedDepth THEN (i - 5) .. i
           ELSE IF r[i + 1] - r[i] > OccludedDepth THEN (i + 1) .. (i + 6)
           ELSE {}
      ELSE {})
     \cup
     (IF diff1 * OccludedRatio > r[i] /\ diff2 * OccludedRatio > r[i]
      THEN {i} ELSE {})

MarkOccludedPoints ==
  /\ epc = "smoothed"
  /\ epc' = "marked"
  /\ cloudNeighborPicked' =
       LET marked == UNION {OccludedBy(i) :
                              i \in SmoothnessMargin .. (segInfo.size - 7)}
       IN [i \in Index |-> IF i \in marked THEN 1 ELSE cloudNeighborPicked[i]]
  /\ UNCHANGED << segInfo, cloudCurvature, cloudLabel, cloudSmoothness,
                  cornerPointsSharp, cornerPointsLessSharp, surfPointsFlat,
                  surfPointsLessFlat, surfPointsLessFlatScan, loop, picks,
                  scansExtracted >>
  /\ UNCHANGED efFrame

\* extractFeatures up to the first sector: the four clouds are cleared.
ExtractFeaturesBegin ==
  /\ epc = "marked"
  /\ epc' = "sector"
  /\ cornerPointsSharp' = << >>
  /\ cornerPointsLessSharp' = << >>
  /\ surfPointsFlat' = << >>
  /\ surfPointsLessFlat' = << >>
  /\ surfPointsLessFlatScan' = << >>
  /\ loop' = NoLoop
  /\ picks' = << >>
  /\ UNCHANGED << segInfo, cloudCurvature, cloudNeighborPicked, cloudLabel,
                  cloudSmoothness, scansExtracted >>
  /\ UNCHANGED efFrame

\* sp and ep of sector j of ring i.
SectorStart(i, j) ==
  TruncDiv(segInfo.startRingIndex[i] * (SectorCount - j)
             + segInfo.endRingIndex[i] * j, SectorCount)
SectorEnd(i, j) ==
  TruncDiv(segInfo.startRingIndex[i] * (SectorCount - 1 - j)
             + segInfo.endRingIndex[i] * (j + 1), SectorCount) - 1

sp == SectorStart(loop.i, loop.j)
ep == SectorEnd(loop.i, loop.j)

\* The orders std::sort may leave the positions S in: any order that is
\* ascending by value; elements of equal value may come in any order.
RECURSIVE SortedOrders(_)
SortedOrders(S) ==
  IF S = {} THEN { << >> }
  ELSE UNION
         { { << p >> \o t : t \in SortedOrders(S \ {p}) } :
             p \in {q \in S : \A x \in S : cloudSmoothness[q].value
                                             <= cloudSmoothness[x].value} }

\* The start of a sector: an empty one is skipped, the others are sorted
\* from sp up to, not including, ep.
SectorBegin ==
  /\ epc = "sector"
  /\ loop.j < SectorCount
  /\ IF sp >= ep
     THEN /\ loop' = [loop EXCEPT !.j = loop.j + 1]
          /\ UNCHANGED << epc, cloudSmoothness >>
     ELSE \E order \in SortedOrders(sp .. (ep - 1)) :
            /\ cloudSmoothness' =
                 [p \in Index |->
                    IF sp <= p /\ p < ep
                    THEN cloudSmoothness[order[p - sp + 1]]
                    ELSE cloudSmoothness[p]]
            /\ epc' = "corner"
            /\ loop' = [loop EXCEPT !.k = ep, !.largestPickedNum = 0]
  /\ UNCHANGED << segInfo, cloudCurvature, cloudNeighborPicked, cloudLabel,
                  cornerPointsSharp, cornerPointsLessSharp, surfPointsFlat,
                  surfPointsLessFlat, surfPointsLessFlatScan, picks,
                  scansExtracted >>
  /\ UNCHANGED efFrame

\* The neighbours of ind that a selection marks as picked: up to five on
\* each side, until two consecutive points are more than ten columns apart.
Suppressed(ind) ==
  LET col == segInfo.segmentedCloudColInd
  IN {ind + l : l \in {m \in 1 .. NeighborSpan :
                        /\ ind + m < FA_cloud_size
                        /\ \A n \in 1 .. m :
                             Abs(col[ind + n] - col[ind + n - 1])
                               <= ColumnGap}}
     \cup
     {ind - l : l \in {m \in 1 .. NeighborSpan :
                        /\ ind - m >= 0
                        /\ \A n \in 1 .. m :
                             Abs(col[ind - n] - col[ind - n + 1])
                               <= ColumnGap}}

MarkPicked(ind) ==
  [x \in Index |-> IF x = ind \/ x \in Suppressed(ind) THEN 1
                   ELSE cloudNeighborPicked[x]]

\* The record of a selection.
Pick(kind, ind) ==
  [kind |-> kind, ind |-> ind, i |-> loop.i, j |-> loop.j,
   picked |-> cloudNeighborPicked[ind],
   ground |-> segInfo.segmentedCloudGroundFlag[ind]]

\* One iteration of the corner loop, k from ep down to sp.
CornerStep ==
  LET ind == cloudSmoothness[loop.k].ind
      accepted == /\ cloudNeighborPicked[ind] = 0
                  /\ cloudCurvature[ind] > edgeThreshold
                  /\ segInfo.segmentedCloudGroundFlag[ind] = FALSE
      num == loop.largestPickedNum + 1
      toFlat == [loop EXCEPT !.k = sp, !.smallestPickedNum = 0]
  IN /\ epc = "corner"
     /\ IF loop.k < sp
        THEN /\ epc' = "flat"
             /\ loop' = toFlat
             /\ UNCHANGED << cloudNeighborPicked, cloudLabel,
                             cornerPointsSharp, cornerPointsLessSharp,
                             picks >>
        ELSE IF ~accepted
        THEN /\ loop' = [loop EXCEPT !.k = loop.k - 1]
             /\ UNCHANGED << epc, cloudNeighborPicked, cloudLabel,
                             cornerPointsSharp, cornerPointsLessSharp,
                             picks >>
        ELSE IF num <= SharpLimit
        THEN /\ cloudLabel' = [cloudLabel EXCEPT ![ind] = 2]
             /\ cornerPointsSharp' = Append(cornerPointsSharp, ind)
             /\ cornerPointsLessSharp' = Append(cornerPointsLessSharp, ind)
             /\ picks' = Append(Append(picks, Pick("sharp", ind)),
                                Pick("lessSharp", ind))
             /\ cloudNeighborPicked' = MarkPicked(ind)
             /\ loop' = [loop EXCEPT !.k = loop.k - 1,
                                     !.largestPickedNum = num]
             /\ UNCHANGED epc
        ELSE IF num <= LessSharpLimit
        THEN /\ cloudLabel' = [cloudLabel EXCEPT ![ind] = 1]
             /\ cornerPointsLessSharp' = Append(cornerPointsLessSharp, ind)
             /\ picks' = Append(picks, Pick("lessSharp", ind))
             /\ cloudNeighborPicked' = MarkPicked(ind)
             /\ loop' = [loop EXCEPT !.k = loop.k - 1,
                                     !.largestPickedNum = num]
             /\ UNCHANGED << epc, cornerPointsSharp >>
        ELSE /\ epc' = "flat"
             /\ loop' = [toFlat EXCEPT !.largestPickedNum = num]
             /\ UNCHANGED << cloudNeighborPicked, cloudLabel,
                             cornerPointsSharp, cornerPointsLessSharp,
                             picks >>
     /\ UNCHANGED << segInfo, cloudCurvature, cloudSmoothness,
                     surfPointsFlat, surfPointsLessFlat,
                     surfPointsLessFlatScan, scansExtracted >>
     /\ UNCHANGED efFrame

\* A flat loop that never stops.
FlatLoopNeverEnds(num) == FALSE

\* The flat loop ends without marking its last selection.
FlatLoopEnds(num) == num >= FlatLimit

\* One iteration of the flat loop, k from sp up to ep.
FlatStep ==
  LET ind == cloudSmoothness[loop.k].ind
      accepted == /\ cloudNeighborPicked[ind] = 0
                  /\ cloudCurvature[ind] < surfThreshold
                  /\ segInfo.segmentedCloudGroundFlag[ind] = TRUE
      num == loop.smallestPickedNum + 1
  IN /\ epc = "flat"
     /\ IF loop.k > ep
        THEN /\ epc' = "lessFlat"
             /\ UNCHANGED << loop, cloudNeighborPicked, cloudLabel,
                             surfPointsFlat, picks >>
        ELSE IF ~accepted
        THEN /\ loop' = [loop EXCEPT !.k = loop.k + 1]
             /\ UNCHANGED << epc, cloudNeighborPicked, cloudLabel,
                             surfPointsFlat, picks >>
        ELSE /\ cloudLabel' = [cloudLabel EXCEPT ![ind] = 0 - 1]
             /\ surfPointsFlat' = Append(surfPointsFlat, ind)
             /\ picks' = Append(picks, Pick("flat", ind))
             /\ IF FlatLoopEnds(num)
                THEN /\ epc' = "lessFlat"
                     /\ loop' = [loop EXCEPT !.smallestPickedNum = num]
                     /\ UNCHANGED cloudNeighborPicked
                ELSE /\ cloudNeighborPicked' = MarkPicked(ind)
                     /\ loop' = [loop EXCEPT !.k = loop.k + 1,
                                             !.smallestPickedNum = num]
                     /\ UNCHANGED epc
     /\ UNCHANGED << segInfo, cloudCurvature, cloudSmoothness,
                     cornerPointsSharp, cornerPointsLessSharp,
                     surfPointsLessFlat, surfPointsLessFlatScan,
                     scansExtracted >>
     /\ UNCHANGED efFrame

\* The points of sp .. ep whose label is <= 0, in order.
RECURSIVE LessFlatOf(_, _)
LessFlatOf(k, last) ==
  IF k > last THEN << >>
  ELSE (IF cloudLabel[k] <= 0 THEN << k >> ELSE << >>)
         \o LessFlatOf(k + 1, last)

\* The last loop of a sector; the next sector follows.
LessFlatSector ==
  /\ epc = "lessFlat"
  /\ epc' = "sector"
  /\ surfPointsLessFlatScan' = surfPointsLessFlatScan \o LessFlatOf(sp, ep)
  /\ loop' = [loop EXCEPT !.j = loop.j + 1]
  /\ UNCHANGED << segInfo, cloudCurvature, cloudNeighborPicked, cloudLabel,
                  cloudSmoothness, cornerPointsSharp, cornerPointsLessSharp,
                  surfPointsFlat, surfPointsLessFlat, picks, scansExtracted >>
  /\ UNCHANGED efFrame

\* The voxel of a point: points one column apart fall two by two into a
\* leaf of the grid, points further apart each into a leaf of their own.
VoxelOf(k) ==
  LET col == segInfo.segmentedCloudColInd
  IN IF k + 1 < FA_cloud_size /\ k > 0
        /\ Abs(col[k] - col[k - 1]) <= 1 /\ Abs(col[k + 1] - col[k]) <= 1
     THEN k \div 2
     ELSE FA_cloud_size + k

\* downSizeFilter.filter: one point for each occupied voxel.
RECURSIVE DownSized(_, _)
DownSized(cloud, seen) ==
  IF cloud = << >> THEN << >>
  ELSE IF VoxelOf(Head(cloud)) \in seen THEN DownSized(Tail(cloud), seen)
  ELSE << Head(cloud) >>
         \o DownSized(Tail(cloud), seen \cup {VoxelOf(Head(cloud))})

\* The end of a ring: its less flat points are downsized and appended.
RingEnd ==
  /\ epc = "sector"
  /\ loop.j = SectorCount
  /\ surfPointsLessFlat' =
       surfPointsLessFlat \o DownSized(surfPointsLessFlatScan, {})
  /\ surfPointsLessFlatScan' = << >>
  /\ IF loop.i + 1 < N_scan
     THEN /\ loop' = [loop EXCEPT !.i = loop.i + 1, !.j = 0]
          /\ UNCHANGED epc
     ELSE /\ epc' = "extracted"
          /\ loop' = NoLoop
  /\ UNCHANGED << segInfo, cloudCurvature, cloudNeighborPicked, cloudLabel,
                  cloudSmoothness, cornerPointsSharp, cornerPointsLessSharp,
                  surfPointsFlat, picks, scansExtracted >>
  /\ UNCHANGED efFrame

(***************************************************************************)
(* FeatureAssociation: imuHandler and the ring buffer.  A sample is given  *)
(* by what imuHandler computes from the message: roll and pitch of getRPY, *)
(* the acceleration with gravity removed, the angular velocity.  In the    *)
(* samples considered yaw is zero, only the x components of the            *)
(* acceleration and of the angular velocity are other than zero, and a     *)
(* sample with an acceleration has zero angles, so that the rotation of    *)
(* the acceleration by roll, pitch and yaw leaves it as it is.             *)
(***************************************************************************)
MaxImu == 4
Epoch == 100

ImuSamples ==
  { [dt |-> 2, roll |-> 0, pitch |-> 0, acc |-> 2, angVel |-> 2],
    [dt |-> scanPeriod, roll |-> 2, pitch |-> 4, acc |-> 0, angVel |-> 0],
    [dt |-> 2, roll |-> 2, pitch |-> 4, acc |-> 0, angVel |-> 0] }

NoSample == [stamp |-> 0, roll |-> 0, pitch |-> 0, acc |-> 0, angVel |-> 0,
             gap |-> FALSE]

ZeroRing == [k \in Slots |-> 0]

\* initializationValue and the constructor, for the members of this part.
InitNode ==
  /\ ipc = "idle"
  /\ imuIn = NoSample
  /\ clock = Epoch
  /\ imuCount = 0
  /\ imuPointerLast = -1
  /\ imuTime = ZeroRing
  /\ imuRoll = ZeroRing
  /\ imuPitch = ZeroRing
  /\ imuAcc = ZeroRing
  /\ imuVelo = ZeroRing
  /\ imuShift = ZeroRing
  /\ imuAngularVelo = ZeroRing
  /\ imuAngularRotation = ZeroRing
  /\ rosOk = TRUE
  /\ dpc = "alive"
  /\ sentinel = "none"
  /\ imu_mutex = "free"
  /\ imu = NoImu
  /\ projection = NoMessage
  /\ timeScanCur = 0
  /\ cycle_count = 0
  /\ clouds = [o \in Objects |-> EmptyCloud]
  /\ ptr = InitPtr
  /\ kdtree = [corner |-> NoTree, surf |-> NoTree]
  /\ odometry = << >>
  /\ forwarded = {}
  /\ association = NoAssociation
  /\ lockView = RingBuffer

\* imuHandler is called with sample s, s.dt ticks after the sample before,
\* and takes the mutex.
ImuLock(s) ==
  /\ ipc = "idle"
  /\ imuCount < MaxImu
  /\ MutexFree(imu_mutex)
  /\ imu_mutex' = "imuHandler"
  /\ ipc' = "locked"
  /\ imuIn' = [stamp |-> clock + s.dt, roll |-> s.roll, pitch |-> s.pitch,
               acc |-> s.acc, angVel |-> s.angVel, gap |-> FALSE]
  /\ clock' = clock + s.dt
  /\ imuCount' = imuCount + 1
  /\ UNCHANGED << imuPointerLast, imuTime, imuRoll, imuPitch, imuAcc,
                  imuVelo, imuShift, imuAngularVelo, imuAngularRotation >>
  /\ UNCHANGED << imu, projection, timeScanCur, cycle_count, clouds, ptr,
                  kdtree, odometry, forwarded, association, lockView >>
  /\ UNCHANGED << ipVars, faVars, efVars, lifeVars >>

ImuHandlerLock == \E s \in ImuSamples : ImuLock(s)

\* imuHandler from imuPointerLast = (imuPointerLast + 1) % imuQueLength to
\* the call of AccumulateIMUShiftAndRotation: the sample is stored.
ImuHandlerStore ==
  /\ ipc = "locked"
  /\ ipc' = "stored"
  /\ imuPointerLast' = (imuPointerLast + 1) % imuQueLength
  /\ imuTime' = [imuTime EXCEPT ![imuPointerLast'] = imuIn.stamp]
  /\ imuRoll' = [imuRoll EXCEPT ![imuPointerLast'] = imuIn.roll]
  /\ imuPitch' = [imuPitch EXCEPT ![imuPointerLast'] = imuIn.pitch]
  /\ imuAcc' = [imuAcc EXCEPT ![imuPointerLast'] = imuIn.acc]
  /\ imuAngularVelo' =
       [imuAngularVelo EXCEPT ![imuPointerLast'] = imuIn.angVel]
  /\ UNCHANGED << imuIn, clock, imuCount, imuVelo, imuShift,
                  imuAngularRotation >>
  /\ UNCHANGED imuFrame

\* timeDiff < scanPeriod
Integrates(timeDiff) == timeDiff < scanPeriod

\* AccumulateIMUShiftAndRotation and the return of imuHandler, which
\* releases the mutex.
AccumulateIMUShiftAndRotation ==
  /\ ipc = "stored"
  /\ ipc' = "idle"
  /\ imu_mutex' = "free"
  /\ LET acc == imuAcc[imuPointerLast]
         imuPointerBack == (imuPointerLast + imuQueLength - 1) % imuQueLength
         timeDiff == imuTime[imuPointerLast] - imuTime[imuPointerBack]
     IN /\ imuIn' = [imuIn EXCEPT !.gap = ~Integrates(timeDiff)]
        /\ IF Integrates(timeDiff)
             THEN /\ imuShift' =
                       [imuShift EXCEPT ![imuPointerLast] =
                          imuShift[imuPointerBack]
                            + imuVelo[imuPointerBack] * timeDiff
                            + TruncDiv(acc * timeDiff * timeDiff, 2)]
                  /\ imuVelo' =
                       [imuVelo EXCEPT ![imuPointerLast] =
                          imuVelo[imuPointerBack] + acc * timeDiff]
                  /\ imuAngularRotation' =
                       [imuAngularRotation EXCEPT ![imuPointerLast] =
                          imuAngularRotation[imuPointerBack]
                            + imuAngularVelo[imuPointerBack] * timeDiff]
             ELSE UNCHANGED << imuShift, imuVelo, imuAngularRotation >>
  /\ UNCHANGED << clock, imuCount, imuPointerLast, imuTime, imuRoll,
                  imuPitch, imuAcc, imuAngularVelo >>
  /\ UNCHANGED << imu, projection, timeScanCur, cycle_count, clouds, ptr,
                  kdtree, odometry, forwarded, association, lockView >>
  /\ UNCHANGED << ipVars, faVars, efVars, lifeVars >>

(***************************************************************************)
(* The node around the worker: ros::ok() becomes false, the destructor     *)
(* sends a default-constructed ProjectionOut and joins the worker.  Both   *)
(* matter to the worker at its loop test and at its receive only, and are  *)
(* taken there.                                                            *)
(***************************************************************************)
BetweenScans == fpc \in {"idle", "receiving"}

RosShutdown ==
  /\ rosOk
  /\ BetweenScans
  /\ rosOk' = FALSE
  /\ UNCHANGED << dpc, sentinel, unitVars >>
  /\ UNCHANGED << ipVars, faVars, efVars, imuVars, workVars >>

\* ~FeatureAssociation: _input_channel.send({})
Destroy ==
  /\ dpc = "alive"
  /\ BetweenScans
  /\ dpc' = "joining"
  /\ sentinel' = "sent"
  /\ UNCHANGED << rosOk, unitVars >>
  /\ UNCHANGED << ipVars, faVars, efVars, imuVars, workVars >>

\* The worker receives the message of the destructor.
ReceiveSentinel ==
  /\ sentinel = "sent"
  /\ sentinel' = "taken"
  /\ Received([NoMessage EXCEPT !.sentinel = TRUE])
  /\ UNCHANGED << rosOk, dpc, unitVars >>

\* ~FeatureAssociation: _run_thread.join() returns when the worker has
\* returned from runFeatureAssociation.
Join ==
  /\ dpc = "joining"
  /\ fpc = "returned"
  /\ dpc' = "joined"
  /\ UNCHANGED << rosOk, sentinel, unitVars >>
  /\ UNCHANGED << ipVars, faVars, efVars, imuVars, workVars >>

(***************************************************************************)
(* findCorrespondingCornerFeatures and findCorrespondingSurfFeatures, the  *)
(* search for one feature point i in an iteration with iterCount % 5 = 0,  *)
(* taken alone.  The target cloud has n points in ring order, per of them  *)
(* on each ring, point j at x = j; pointSel lies at x = sel, at distance   *)
(* off from the line of the points.  The KD-tree was built from the target *)
(* cloud, so that the nearest point is the point of index sel.             *)
(***************************************************************************)
nearestFeatureSearchSqDist == 25

\* By how many points the features of the current scan outnumber the
\* target cloud at most.
MaxSurplus == 2

TargetSizes(kind) ==
  IF kind = "corner" THEN {MinCornerLast, MinCornerLast + 1}
  ELSE {MinSurfLast, MinSurfLast + 1}

Targets(kind) ==
  UNION { { [n |-> n, per |-> per] : per \in {1, 4, n} } :
            n \in TargetSizes(kind) }

\* laserCloudCornerLast->points[j], laserCloudSurfLast->points[j] for an
\* index inside the cloud.
TargetPoint(t, j) == [ring |-> j \div t.per, x |-> j]

\* points[j]: operator[] does not check the index; outside the cloud it
\* returns whatever follows the storage, a ring and a position that lets
\* the point look close to pointSel or far from it.
PointsAt(t, j, sel) ==
  IF 0 <= j /\ j < t.n THEN {TargetPoint(t, j)}
  ELSE { [ring |-> r, x |-> x] : r \in Garbage, x \in {sel, 1000} }

\* pointSqDis
SqDis(pt, sel, off) == (pt.x - sel) * (pt.x - sel) + off * off

NoCorr ==
  [spc |-> "idle", kind |-> "none", t |-> [n |-> 0, per |-> 1], num |-> 0,
   sel |-> 0, off |-> 0, closestPointInd |-> -1, closestPointScan |-> 0,
   j |-> 0, minPointSqDis2 |-> 0, minPointInd2 |-> -1,
   minPointSqDis3 |-> 0, minPointInd3 |-> -1, reads |-> {}]

\* nearestKSearch and the lines up to the first loop: closestPointInd and
\* closestPointScan, when the nearest point is near enough.
Searched(kind, t, num, sel, off) ==
  LET found == off * off < nearestFeatureSearchSqDist
  IN  [spc |-> IF found THEN "forward" ELSE "searched",
       kind |-> kind, t |-> t, num |-> num, sel |-> sel, off |-> off,
       closestPointInd |-> IF found THEN sel ELSE -1,
       closestPointScan |-> IF found THEN TargetPoint(t, sel).ring ELSE 0,
       j |-> IF found THEN sel + 1 ELSE 0,
       minPointSqDis2 |-> nearestFeatureSearchSqDist,
       minPointInd2 |-> -1,
       minPointSqDis3 |-> nearestFeatureSearchSqDist,
       minPointInd3 |-> -1,
       reads |-> IF found THEN {sel} ELSE {}]

\* The upper bound of the forward loop: j < cornerPointsSharpNum, resp.
\* j < surfPointsFlatNum, the number of features of the current scan.
ForwardBound(c) == c.num

\* int(points[j].intensity) > closestPointScan + 2.5
ForwardBreak(c, pt) == 2 * pt.ring > 2 * c.closestPointScan + 5

\* int(points[j].intensity) < closestPointScan - 2.5
BackwardBreak(c, pt) == 2 * pt.ring < 2 * c.closestPointScan - 5

Closer2(c, d) ==
  IF d < c.minPointSqDis2
    THEN [c EXCEPT !.minPointSqDis2 = d, !.minPointInd2 = c.j]
    ELSE c

Closer3(c, d) ==
  IF d < c.minPointSqDis3
    THEN [c EXCEPT !.minPointSqDis3 = d, !.minPointInd3 = c.j]
    ELSE c

\* The body of the forward loop after the break test.
ForwardPick(c, pt) ==
  LET d == SqDis(pt, c.sel, c.off)
  IN  IF c.kind = "corner"
        THEN IF pt.ring > c.closestPointScan THEN Closer2(c, d) ELSE c
        ELSE IF pt.ring <= c.closestPointScan THEN Closer2(c, d)
             ELSE Closer3(c, d)

\* The body of the backward loop after the break test.
BackwardPick(c, pt) ==
  LET d == SqDis(pt, c.sel, c.off)
  IN  IF c.kind = "corner"
        THEN IF pt.ring < c.closestPointScan THEN Closer2(c, d) ELSE c
        ELSE IF pt.ring >= c.closestPointScan THEN Closer2(c, d)
             ELSE Closer3(c, d)

Read(c, j) == [c EXCEPT !.reads = @ \cup {j}]

InitSearch == corr = NoCorr

StartSearch ==
  /\ corr.spc \in {"idle", "tripod"}
  /\ \E kind \in {"corner", "surf"} :
       \E t \in Targets(kind), off \in {0, 5} :
         \E num \in {1, t.n, t.n + MaxSurplus}, sel \in {0, t.n \div 2, t.n - 1} :
           corr' = Searched(kind, t, num, sel, off)
  /\ UNCHANGED << unitFrame, adj >>

ForwardStep ==
  /\ corr.spc = "forward"
  /\ corr.j < ForwardBound(corr)
  /\ \E pt \in PointsAt(corr.t, corr.j, corr.sel) :
       corr' = IF ForwardBreak(corr, pt)
                 THEN [Read(corr, corr.j) EXCEPT
                         !.spc = "backward", !.j = corr.closestPointInd - 1]
                 ELSE [ForwardPick(Read(corr, corr.j), pt) EXCEPT
                         !.j = corr.j + 1]
  /\ UNCHANGED << unitFrame, adj >>

ForwardEnd ==
  /\ corr.spc = "forward"
  /\ ~(corr.j < ForwardBound(corr))
  /\ corr' = [corr EXCEPT !.spc = "backward", !.j = corr.closestPointInd - 1]
  /\ UNCHANGED << unitFrame, adj >>

BackwardStep ==
  /\ corr.spc = "backward"
  /\ corr.j >= 0
  /\ \E pt \in PointsAt(corr.t, corr.j, corr.sel) :
       corr' = IF BackwardBreak(corr, pt)
                 THEN [Read(corr, corr.j) EXCEPT !.spc = "searched"]
                 ELSE [BackwardPick(Read(corr, corr.j), pt) EXCEPT
                         !.j = corr.j - 1]
  /\ UNCHANGED << unitFrame, adj >>

BackwardEnd ==
  /\ corr.spc = "backward"
  /\ corr.j < 0
  /\ corr' = [corr EXCEPT !.spc = "searched"]
  /\ UNCHANGED << unitFrame, adj >>

\* pointSearch...Ind1[i], Ind2[i] (and Ind3[i]) are stored and, when the
\* second (and third) point was found, the tripod is read at them.
TripodIndices(c) ==
  IF c.kind = "corner"
    THEN IF c.minPointInd2 >= 0
           THEN {c.closestPointInd, c.minPointInd2} ELSE {}
    ELSE IF c.minPointInd2 >= 0 /\ c.minPointInd3 >= 0
           THEN {c.closestPointInd, c.minPointInd2, c.minPointInd3} ELSE {}

ReadTripod ==
  /\ corr.spc = "searched"
  /\ corr' = [corr EXCEPT !.spc = "tripod", !.reads = @ \cup TripodIndices(corr)]
  /\ UNCHANGED << unitFrame, adj >>

NextSearch ==
  \/ StartSearch
  \/ ForwardStep
  \/ ForwardEnd
  \/ BackwardStep
  \/ BackwardEnd
  \/ ReadTripod

(***************************************************************************)
(* findStartEndAngle of ImageProjection and the relative time of           *)
(* adjustDistortion, taken alone.  Angles are multiples of pi / Pi; the    *)
(* azimuth -atan2(y, x) of a point lies in -Pi .. Pi.  The segmented cloud *)
(* holds the points ring after ring in column order, so that their         *)
(* azimuths come in any order with respect to the first point received;   *)
(* halfPassed is a local of adjustDistortion, so that one scan tells all.  *)
(***************************************************************************)
Pi == 4
Azimuths == (0 - Pi) .. Pi

\* The points of one scan that are deskewed.
MaxDeskewed == 3

\* 1 / scanPeriod: the revolutions per second.
ScansPerSecond == 10

NoAdj ==
  [apc |-> "idle", startOrientation |-> 0, endOrientation |-> 0,
   orientationDiff |-> 0, halfPassed |-> FALSE, i |-> 0, ring |-> 0,
   ori |-> 0, relTime |-> [num |-> 0, den |-> 1],
   intensity |-> [num |-> 0, den |-> 1]]

InitAdjust == adj = NoAdj

\* _seg_msg.endOrientation after the two tests of findStartEndAngle.
EndOrientation(first, last) ==
  LET e == last + 2 * Pi
  IN  IF e - first > 3 * Pi THEN e - 2 * Pi
      ELSE IF e - first < Pi THEN e + 2 * Pi
      ELSE e

\* ori and halfPassed after the tests of adjustDistortion on a point of
\* azimuth a.
Orientation(a, seg, halfPassed) ==
  IF ~halfPassed
    THEN LET o == IF 2 * a < 2 * seg.startOrientation - Pi THEN a + 2 * Pi
                  ELSE IF 2 * a > 2 * seg.startOrientation + 3 * Pi
                    THEN a - 2 * Pi
                  ELSE a
         IN  [ori |-> o, halfPassed |-> o - seg.startOrientation > Pi]
    ELSE LET b == a + 2 * Pi
             o == IF 2 * b < 2 * seg.endOrientation - 3 * Pi THEN b + 2 * Pi
                  ELSE IF 2 * b > 2 * seg.endOrientation + Pi
                    THEN b - 2 * Pi
                  ELSE b
         IN  [ori |-> o, halfPassed |-> TRUE]

\* relTime = (ori - startOrientation) / orientationDiff, as a fraction.
RelTime(ori, seg) ==
  [num |-> ori - seg.startOrientation, den |-> seg.orientationDiff]

\* point.intensity = int(intensity) + scanPeriod * relTime, as a fraction.
Retagged(ring, relTime) ==
  [num |-> ring * ScansPerSecond * relTime.den + relTime.num,
   den |-> ScansPerSecond * relTime.den]

\* int(point.intensity)
IntegerPart(x) == TruncDiv(x.num, x.den)

FindStartEndAngle ==
  /\ adj.apc = "idle"
  /\ \E first \in Azimuths, last \in Azimuths :
       adj' = [NoAdj EXCEPT
                 !.apc = "found",
                 !.startOrientation = first,
                 !.endOrientation = EndOrientation(first, last),
                 !.orientationDiff = EndOrientation(first, last) - first]
  /\ UNCHANGED << unitFrame, corr >>

\* One iteration of the loop of adjustDistortion, up to the new intensity.
AdjustPoint ==
  /\ adj.apc \in {"found", "adjusting"}
  /\ adj.i < MaxDeskewed
  /\ \E a \in Azimuths, ring \in 0 .. N_scan - 1 :
       LET o == Orientation(a, adj, adj.halfPassed)
           t == RelTime(o.ori, adj)
       IN  adj' = [adj EXCEPT !.apc = "adjusting", !.i = @ + 1,
                              !.halfPassed = o.halfPassed, !.ring = ring,
                              !.ori = o.ori, !.relTime = t,
                              !.intensity = Retagged(ring, t)]
  /\ UNCHANGED << unitFrame, corr >>

\* i reaches cloudSize.
EndAdjust ==
  /\ adj.apc \in {"found", "adjusting"}
  /\ adj' = [adj EXCEPT !.apc = "adjusted"]
  /\ UNCHANGED << unitFrame, corr >>

NextAdjust ==
  \/ FindStartEndAngle
  \/ AdjustPoint
  \/ EndAdjust

\* The scans of the node specification: too few corner features for the
\* solver to run, so that updateTransformation returns at once.
MaxNodeScans == 2
MaxNodeImu == 3

PoorSizes == { << MinCornerLast - 1, MinSurfLast + 1 >> }
Lags == {0, 2}

ReceivePoorScan ==
  /\ scan.no < MaxNodeScans
  /\ \E f \in PoorSizes, lag \in Lags : ReceiveScan(f[1], f[2], lag)

NodeImuLock == imuCount < MaxNodeImu /\ ImuHandlerLock

(***************************************************************************)
(* The two nodes are checked apart: Spec runs ImageProjection, SpecFA runs *)
(* FeatureAssociation on the scans its input channel delivers.             *)
(***************************************************************************)
Init == InitIP /\ InitFA /\ InitEF /\ InitNode /\ InitSearch /\ InitAdjust

Next ==
  \/ ResetParameters
  \/ CloudHandler
  \/ GroundRemoval
  \/ SegmentNext
  \/ ExtractSegmentedCloud
  \/ PublishClouds

vars == << ipVars, faVars, efVars, imuVars, lifeVars, workVars >>

Spec == Init /\ [][Next]_vars

NextFA ==
  \/ LoopTest
  \/ RunFeatureAssociation
  \/ LockWorker
  \/ ExtractScan
  \/ CheckSystemInitialization
  \/ UpdateInitialGuess
  \/ SkipSolve
  \/ StartSurfPass
  \/ SurfSkip
  \/ SurfSolve
  \/ StartCornerPass
  \/ CornerSkip
  \/ CornerSolve
  \/ IntegrateTransformation
  \/ PublishOdometry
  \/ PublishCloudsLast
  \/ ForwardToMapping

SpecFA == Init /\ [][NextFA]_vars

\* FeatureAssociation with solutions that keep the loops of
\* updateTransformation running.
NextSolve ==
  \/ LoopTest
  \/ RunFeatureAssociation
  \/ LockWorker
  \/ ExtractScan
  \/ CheckSystemInitialization
  \/ UpdateInitialGuess
  \/ SkipSolve
  \/ StartSurfPass
  \/ SurfSkip
  \/ SurfSwing
  \/ StartCornerPass
  \/ CornerSkip
  \/ CornerSwing
  \/ IntegrateTransformation
  \/ PublishOdometry
  \/ PublishCloudsLast
  \/ ForwardToMapping

SpecSolve == Init /\ [][NextSolve]_vars

\* The node with its IMU: the callback, the worker on feature-poor scans
\* (no solver iteration can run), the shutdown.
NextNode ==
  \/ NodeImuLock
  \/ ImuHandlerStore
  \/ AccumulateIMUShiftAndRotation
  \/ RosShutdown
  \/ Destroy
  \/ Join
  \/ LoopTest
  \/ ReceivePoorScan
  \/ ReceiveSentinel
  \/ LockWorker
  \/ ExtractScan
  \/ ExtractSentinel
  \/ CheckSystemInitialization
  \/ UpdateInitialGuess
  \/ SkipSolve
  \/ IntegrateTransformation
  \/ PublishOdometry
  \/ PublishCloudsLast
  \/ ForwardToMapping

SpecNode == Init /\ [][NextNode]_vars

\* imuHandler alone.
NextIMU ==
  \/ ImuHandlerLock
  \/ ImuHandlerStore
  \/ AccumulateIMUShiftAndRotation

SpecIMU == Init /\ [][NextIMU]_vars

NextEF ==
  \/ ReceiveSegmentedCloud
  \/ CalculateSmoothness
  \/ MarkOccludedPoints
  \/ ExtractFeaturesBegin
  \/ SectorBegin
  \/ CornerStep
  \/ FlatStep
  \/ LessFlatSector
  \/ RingEnd

SpecEF == Init /\ [][NextEF]_vars

\* labelComponents alone.
NextBFS ==
  \/ TakeImage
  \/ CallLabelComponents
  \/ SearchStep
  \/ EndSearch

SpecBFS == Init /\ [][NextBFS]_vars

SpecSearch == Init /\ [][NextSearch]_vars

SpecAdjust == Init /\ [][NextAdjust]_vars

(***************************************************************************)
(* The two stages and the channel between them: ImageProjection on scans   *)
(* of a wall above the floor, the worker on the messages it sends.  The    *)
(* next scan arrives when the worker has received the message of the scan  *)
(* before; the features of a message are too few for the solver to run.    *)
(***************************************************************************)
MaxPipeScans == 3

PipeScans ==
  { p \in ScanParams :
      /\ p.rTop = 0
      /\ p.rBot = N_scan - 1
      /\ p.wTop = Horizon_SCAN
      /\ p.wBody \in {Horizon_SCAN - 2, Horizon_SCAN}
      /\ p.rest = "G"
      /\ p.other = "none" }

\* The message in the channel: the worker holds the clouds of every
\* message it has received.
Pending ==
  /\ projectionOut # NoOut
  /\ projectionOut.segmented_cloud # projection.segmented_cloud

PipeReset == ~Pending /\ ResetParameters

PipeCloudHandler == \E p \in PipeScans : ProjectPointCloud(p)

\* _input_channel.receive(projection)
ReceiveProjection ==
  /\ Pending
  /\ scan.no < MaxPipeScans
  /\ \E f \in PoorSizes :
       Received([sentinel |-> FALSE, corner |-> f[1], surf |-> f[2],
                 stamp |-> clock,
                 outlier_cloud |-> projectionOut.outlier_cloud,
                 segmented_cloud |-> projectionOut.segmented_cloud,
                 seg_msg |-> projectionOut.seg_msg])
  /\ UNCHANGED lifeVars

NextPipe ==
  \/ PipeReset
  \/ PipeCloudHandler
  \/ GroundRemoval
  \/ SegmentNext
  \/ ExtractSegmentedCloud
  \/ PublishClouds
  \/ LoopTest
  \/ ReceiveProjection
  \/ LockWorker
  \/ ExtractScan
  \/ CheckSystemInitialization
  \/ UpdateInitialGuess
  \/ SkipSolve
  \/ IntegrateTransformation
  \/ PublishOdometry
  \/ PublishCloudsLast
  \/ ForwardToMapping

SpecPipe == Init /\ [][NextPipe]_vars

(***************************************************************************)
(* Properties of ImageProjection, checked under Spec.                      *)
(***************************************************************************)
Segmented == pc = "segmented"

AcceptedId(l) == l > 0 /\ l # RejectedLabel

\* The cells of the points of a cloud, recovered from the intensity tags.
CellOf(pt) == << TagRow(pt.intensity), TagCol(pt.intensity) >>
CellsOf(cloud) == {CellOf(cloud[k]) : k \in 1 .. Len(cloud)}

\* C1: after cloudSegmentation no cell of label_mat is 0; a cell with a
\* finite range that is not ground carries a positive cluster id or 999999,
\* and a ground or no-return cell carries -1.
C1_NoCellUnlabelled ==
  Segmented =>
    \A c \in Cells :
      /\ label_mat[c] # 0
      /\ (range_mat[c] < FLT_MAX /\ ground_mat[c] # 1) => label_mat[c] > 0
      /\ (ground_mat[c] = 1 \/ range_mat[c] = FLT_MAX) => label_mat[c] = 0 - 1

\* A segmented scan that holds a ground cell, a no-return cell, an accepted
\* cell and a rejected cell.
C1_Witness ==
  /\ Segmented
  /\ \E c \in Cells : ground_mat[c] = 1
  /\ \E c \in Cells : range_mat[c] = FLT_MAX
  /\ \E c \in Cells : AcceptedId(label_mat[c])
  /\ \E c \in Cells : label_mat[c] = RejectedLabel

\* C2: a labelComponents call accepts its cluster if and only if the size is
\* >= 30, or the size is >= segmentValidPointNum and the number of distinct
\* rows occupied by the cluster's cells is >= segmentValidLineNum; every cell
\* of a rejected cluster ends with label 999999.
RowsOccupied(cluster) == {cluster[k][1] : k \in 1 .. Len(cluster)}

C2_AcceptedIffSizeOrRows ==
  pc = "labelling" =>
    /\ lastCall.feasibleSegment <=>
         \/ Len(lastCall.all_pushed) >= FeasibleSize
         \/ /\ Len(lastCall.all_pushed) >= segmentValidPointNum
            /\ Cardinality(RowsOccupied(lastCall.all_pushed))
                 >= segmentValidLineNum
    /\ ~lastCall.feasibleSegment =>
         \A c \in SeqRange(lastCall.all_pushed) : label_mat[c] = RejectedLabel

\* A call that rejects a cluster of at least segmentValidPointNum cells which
\* occupies segmentValidLineNum rows: the row of the start cell is counted
\* only when the search pushes another cell of that row.
C2_Witness ==
  /\ pc = "labelling"
  /\ ~lastCall.feasibleSegment
  /\ Len(lastCall.all_pushed) >= segmentValidPointNum
  /\ Cardinality(RowsOccupied(lastCall.all_pushed)) >= segmentValidLineNum
  /\ lastCall.lineCount < segmentValidLineNum

\* C3: the accepted cluster ids present in label_mat after segmentation are
\* exactly 1 .. label_count - 1; ids are handed out in increasing order from
\* 1 and a rejected cluster consumes none.
IdsPresent == {label_mat[c] : c \in Cells} \ {0, 0 - 1, RejectedLabel}

C3_IdsDense ==
  /\ pc \in {"labelling", "segmented"} =>
       IdsPresent = 1 .. (label_count - 1)
  /\ pc = "labelling" =>
       /\ lastCall.feasibleSegment => label_count = lastCall.label + 1
       /\ ~lastCall.feasibleSegment => label_count = lastCall.label

\* A segmented scan whose first cluster was rejected and whose later cluster
\* received the id 1.
C3_Witness ==
  /\ Segmented
  /\ label_count = 2
  /\ \E c, d \in Cells :
       /\ label_mat[c] = RejectedLabel
       /\ label_mat[d] = 1
       /\ RowMajor(c) < RowMajor(d)

\* The sum over the rings i of endRingIndex[i] - startRingIndex[i] + inset.
RECURSIVE RingWindowSum(_, _)
RingWindowSum(i, inset) ==
  IF i >= N_scan THEN 0
  ELSE seg_msg.endRingIndex[i] - seg_msg.startRingIndex[i] + inset
         + RingWindowSum(i + 1, inset)

\* C4: the size of the segmented cloud equals the sum over all rings i of
\* endRingIndex[i] - startRingIndex[i] + 11.
C4_SizeIsSumOfWindows ==
  Segmented => Len(segmented_cloud) = RingWindowSum(0, 2 * RingInset + 1)

\* A segmented scan with a non-empty cloud whose windows add up to the size
\* of the cloud plus one per ring.
C4_Witness ==
  /\ Segmented
  /\ Len(segmented_cloud) > 0
  /\ RingWindowSum(0, 2 * RingInset + 1) = Len(segmented_cloud) + N_scan

\* The ring of the point at index k of the segmented cloud (indices from 0).
RingOfIndex(k) == TagRow(segmented_cloud[k + 1].intensity)

\* C5: for every ring i and every index k of its window
\* [startRingIndex[i], endRingIndex[i]], the eleven stencil positions
\* k-5 .. k+5 of calculateSmoothness are points emitted for ring i.
C5_StencilInsideRing ==
  Segmented =>
    \A i \in Rows :
      \A k \in seg_msg.startRingIndex[i] .. seg_msg.endRingIndex[i] :
        \A d \in (0 - RingInset) .. RingInset :
          /\ k + d \in 0 .. (Len(segmented_cloud) - 1)
          /\ RingOfIndex(k + d) = i

\* A ring with a non-empty window whose first stencil starts on the last
\* point of the ring before it.
C5_Witness ==
  /\ Segmented
  /\ \E i \in Rows :
       /\ seg_msg.startRingIndex[i] <= seg_msg.endRingIndex[i]
       /\ seg_msg.startRingIndex[i] - RingInset >= 0
       /\ RingOfIndex(seg_msg.startRingIndex[i] - RingInset) = i - 1

\* C6: every point k of the segmented cloud has its entry at index k of
\* segmentedCloudGroundFlag, segmentedCloudColInd and segmentedCloudRange;
\* segmentedCloudColInd[k] is a column of the image and segmentedCloudRange[k]
\* is range_mat at the cell of the point's intensity tag.
C6_SegInfoAligned ==
  Segmented =>
    \A k \in 0 .. (Len(segmented_cloud) - 1) :
      LET c == CellOf(segmented_cloud[k + 1])
      IN /\ k \in DOMAIN seg_msg.segmentedCloudGroundFlag
         /\ k \in DOMAIN seg_msg.segmentedCloudColInd
         /\ k \in DOMAIN seg_msg.segmentedCloudRange
         /\ c \in Cells
         /\ seg_msg.segmentedCloudColInd[k] \in Cols
         /\ seg_msg.segmentedCloudColInd[k] = c[2]
         /\ seg_msg.segmentedCloudRange[k] = range_mat[c]
         /\ seg_msg.segmentedCloudGroundFlag[k] = (ground_mat[c] = 1)

\* A segmented cloud that holds points of two ranges in one ring and a
\* ground point.
C6_Witness ==
  /\ Segmented
  /\ \E k, m \in 0 .. (Len(segmented_cloud) - 1) :
       /\ RingOfIndex(k) = RingOfIndex(m)
       /\ seg_msg.segmentedCloudRange[k] # seg_msg.segmentedCloudRange[m]
  /\ \E k \in 0 .. (Len(segmented_cloud) - 1) :
       seg_msg.segmentedCloudGroundFlag[k]

\* C7: a cell labelled 999999 is never in the segmented cloud and is in the
\* outlier cloud exactly when i > groundScanInd and j % 5 = 0; a ground cell
\* is in the segmented cloud exactly when j % 5 = 0 or j <= 5 or
\* j >= horizontal_scan - 5; every cell with an accepted id is in the
\* segmented cloud; no other cell is emitted anywhere, and none twice.
C7_EmissionFilter ==
  Segmented =>
    /\ \A c \in Cells :
         /\ label_mat[c] = RejectedLabel =>
              /\ c \notin CellsOf(segmented_cloud)
              /\ c \in CellsOf(outlier_cloud) <=>
                   (c[1] > groundScanInd /\ c[2] % 5 = 0)
         /\ ground_mat[c] = 1 =>
              (c \in CellsOf(segmented_cloud) <=>
                 (c[2] % 5 = 0 \/ c[2] <= 5 \/ c[2] >= Horizon_SCAN - 5))
         /\ AcceptedId(label_mat[c]) => c \in CellsOf(segmented_cloud)
         /\ c \in CellsOf(segmented_cloud) =>
              (AcceptedId(label_mat[c]) \/ ground_mat[c] = 1)
         /\ c \in CellsOf(outlier_cloud) => label_mat[c] = RejectedLabel
    /\ CellsOf(segmented_cloud) \cup CellsOf(outlier_cloud) \subseteq Cells
    /\ Cardinality(CellsOf(segmented_cloud)) = Len(segmented_cloud)
    /\ Cardinality(CellsOf(outlier_cloud)) = Len(outlier_cloud)

\* A segmented scan with a rejected cell kept as outlier, a rejected cell
\* dropped, a ground cell skipped, a ground cell emitted and an accepted cell.
C7_Witness ==
  /\ Segmented
  /\ \E c \in Cells :
       label_mat[c] = RejectedLabel /\ c \in CellsOf(outlier_cloud)
  /\ \E c \in Cells :
       label_mat[c] = RejectedLabel /\ c \notin CellsOf(outlier_cloud)
  /\ \E c \in Cells :
       ground_mat[c] = 1 /\ c \notin CellsOf(segmented_cloud)
  /\ \E c \in Cells :
       ground_mat[c] = 1 /\ c \in CellsOf(segmented_cloud)
  /\ \E c \in Cells : AcceptedId(label_mat[c])

(***************************************************************************)
(* Properties of FeatureAssociation, checked under SpecFA.                 *)
(***************************************************************************)
\* C8: when a non-bootstrap scan meets sparse targets (fewer than 10
\* corner-last or fewer than 100 surf-last points), no solver iteration runs
\* and the increment that integrateTransformation composes is the identity:
\* transformCur is all zeros and, with zero IMU input, transformSum is what
\* it was before the scan.
C8_SparseScanIntegratesIdentity ==
  (fpc = "integrated" /\ scan.sparse /\ ~scan.bootstrap) =>
    /\ scan.solves = 0
    /\ transformCur = ZeroPose
    /\ transformSum = scan.sumBefore

\* A sparse scan on which no iteration ran and which nevertheless moved
\* transformSum by the increment left in transformCur by an earlier scan.
C8_Witness ==
  /\ fpc = "integrated"
  /\ scan.sparse
  /\ scan.solves = 0
  /\ transformCur # ZeroPose
  /\ transformSum # scan.sumBefore

PassFinished == fpc \in {"surfDone", "cornerDone"}

\* C9: if a pass finishes with isDegenerate false, the smallest eigenvalue of
\* the matAtA examined at its iteration 0 is >= 10: whenever an eigenvalue
\* is below 10 the pass is flagged degenerate.
C9_NotDegenerateMeansEigenvaluesLarge ==
  (PassFinished /\ pass.ran0 /\ ~isDegenerate) =>
    \A i \in 1 .. 3 : pass.matE[i] >= EignThre

\* A finished pass that is not flagged although its smallest eigenvalue is
\* below the threshold: the loop starts at the largest eigenvalue and breaks
\* there.
C9_Witness ==
  /\ PassFinished
  /\ pass.ran0
  /\ ~isDegenerate
  /\ pass.matE[1] < EignThre
  /\ pass.matE[3] >= EignThre

Sectors == 0 .. (SectorCount - 1)

\* The selections of one kind made in sector j of ring i.
PicksOf(kind, i, j) ==
  {n \in 1 .. Len(picks) :
     picks[n].kind = kind /\ picks[n].i = i /\ picks[n].j = j}

\* The indices selected for one kind, in the order of selection.
IndicesOf(kind) ==
  LET chosen == SelectSeq(picks, LAMBDA p : p.kind = kind)
  IN [n \in 1 .. Len(chosen) |-> chosen[n].ind]

\* C11: in one sector of one ring of one scan extractFeatures adds at most 2
\* points to cornerPointsSharp, at most 20 to cornerPointsLessSharp (the
\* sharp ones included) and at most 4 to surfPointsFlat.
C11_SectorFeatureLimits ==
  /\ cornerPointsSharp = IndicesOf("sharp")
  /\ cornerPointsLessSharp = IndicesOf("lessSharp")
  /\ surfPointsFlat = IndicesOf("flat")
  /\ \A i \in Rows, j \in Sectors :
       /\ Cardinality(PicksOf("sharp", i, j)) <= SharpLimit
       /\ Cardinality(PicksOf("lessSharp", i, j)) <= LessSharpLimit
       /\ Cardinality(PicksOf("flat", i, j)) <= FlatLimit

\* The corner loop of a sector has just stopped at its 21st candidate after
\* 2 sharp and 20 less sharp points, and an earlier sector of the scan gave
\* 4 flat points.
C11_Witness ==
  /\ epc = "flat"
  /\ loop.largestPickedNum = LessSharpLimit + 1
  /\ Cardinality(PicksOf("sharp", loop.i, loop.j)) = SharpLimit
  /\ Cardinality(PicksOf("lessSharp", loop.i, loop.j)) = LessSharpLimit
  /\ \E j \in Sectors : Cardinality(PicksOf("flat", loop.i, j)) = FlatLimit

CornerKinds == {"sharp", "lessSharp"}

\* C12: every point put into cornerPointsSharp or cornerPointsLessSharp is
\* off the ground and had cloudNeighborPicked 0 when it was selected, every
\* point put into surfPointsFlat is ground and had cloudNeighborPicked 0; no
\* index is selected both as a corner and as a flat point, and none is
\* selected twice in a scan.
C12_SelectedOncePerScan ==
  /\ \A n \in 1 .. Len(picks) :
       /\ picks[n].picked = 0
       /\ picks[n].kind \in CornerKinds => ~picks[n].ground
       /\ picks[n].kind = "flat" => picks[n].ground
  /\ \A m, n \in 1 .. Len(picks) :
       (m # n /\ picks[m].ind = picks[n].ind) =>
         /\ picks[m].kind \in CornerKinds
         /\ picks[n].kind \in CornerKinds
         /\ picks[m].kind # picks[n].kind

\* A scan in which surfPointsFlat holds the same index twice: the fourth
\* flat point of a sector, reached through the entry the previous scan left
\* at position 4 of cloudSmoothness, is selected again in its own sector.
C12_Witness ==
  /\ scansExtracted = 2
  /\ \E m, n \in 1 .. Len(surfPointsFlat) :
       /\ m < n
       /\ surfPointsFlat[m] = surfPointsFlat[n]
       /\ picks[Len(picks)].kind = "flat"
       /\ \E a, b \in 1 .. Len(picks) :
            /\ picks[a].ind = surfPointsFlat[m]
            /\ picks[b].ind = surfPointsFlat[m]
            /\ picks[a].j < picks[b].j
            /\ picks[a].picked = 0 /\ picks[b].picked = 0

(***************************************************************************)
(* Properties of the node with its IMU, checked under SpecNode.            *)
(***************************************************************************)
IntegrationStep == fpc \in {"solved", "cornerDone"} /\ fpc' = "integrated"
BootstrapStep == fpc = "extracted" /\ ~systemInitedLM /\ systemInitedLM'

\* C13 as stated: transformSum is written by integrateTransformation only,
\* exactly once per scan that goes through association: no other step, the
\* bootstrap of the first scan included, changes a component of
\* transformSum.
C13_TransformSumWrittenByIntegrationOnly ==
  [][ /\ (transformSum' # transformSum => IntegrationStep)
      /\ (fpc' = "odometry" => scan'.integrations = 1) ]_vars

\* C13 as amended: transformSum is written by integrateTransformation,
\* exactly once per scan that goes through association, and by the bootstrap
\* of the first scan, which adds imuPitchStart to transformSum[0] and
\* imuRollStart to transformSum[2]; no other step changes a component of
\* transformSum.
C13_TransformSumWrittenByIntegrationAndSeed ==
  [][ /\ (transformSum' # transformSum => IntegrationStep \/ BootstrapStep)
      /\ (BootstrapStep =>
            /\ transformSum'[0] = transformSum[0] + imu.imuPitchStart
            /\ transformSum'[2] = transformSum[2] + imu.imuRollStart
            /\ \A i \in {1, 3, 4, 5} : transformSum'[i] = transformSum[i])
      /\ (fpc' = "odometry" => scan'.integrations = 1) ]_vars

\* The first scan has been through checkSystemInitialization after an IMU
\* sample with roll 2 and pitch 4: no integration ran, and transformSum[0]
\* and transformSum[2] hold imuPitchStart and imuRollStart.
C13_Witness ==
  /\ fpc = "idle"
  /\ scan.no = 1
  /\ scan.bootstrap
  /\ scan.integrations = 0
  /\ imu.imuPitchStart = 4
  /\ imu.imuRollStart = 2
  /\ transformSum = [ZeroPose EXCEPT ![0] = 4, ![2] = 2]

\* The worker is between its lock_guard and the end of the loop body.
WorkerInSection == fpc \notin {"idle", "receiving", "received", "returned"}

\* C17: imuHandler and the worker never access the IMU ring buffer at the
\* same time.  While the worker is between taking the mutex for a scan and
\* the end of that scan (the continue of the bootstrap included) no step of
\* imuHandler runs, and imuPointerLast and every slot of the ring buffer
\* are what they were when the worker took the mutex.
C17_ImuBufferExclusive ==
  /\ (ipc # "idle") <=> (imu_mutex = "imuHandler")
  /\ WorkerInSection <=> (imu_mutex = "worker")
  /\ WorkerInSection => ipc = "idle" /\ RingBuffer = lockView

\* The first scan after adjustDistortion, which has read the two samples
\* stored before the lock; a third sample may arrive and has to wait.
C17_Witness ==
  /\ fpc = "extracted"
  /\ scan.bootstrap
  /\ imu_mutex = "worker"
  /\ imuCount = 2
  /\ imuCount < MaxNodeImu
  /\ imuPointerLast = 1
  /\ imu.imuPointerLastIteration = 1
  /\ lockView.imuPointerLast = 1

\* C18: when the destructor has sent its default-constructed message, the
\* worker that receives it returns without processing it as a scan,
\* whatever ros::ok() is at that moment, so that the join of the
\* destructor completes.
C18_SentinelEndsWorker ==
  sentinel = "taken" => fpc = "returned"

\* ros::ok() was true when the message of the destructor was received: it
\* was processed as a scan, and the worker waits for a next message that
\* never comes while the destructor waits in join.
C18_Witness ==
  /\ dpc = "joining"
  /\ sentinel = "taken"
  /\ rosOk
  /\ fpc = "receiving"
  /\ scan.no >= 1

(***************************************************************************)
(* Properties of imuHandler, checked under SpecIMU.                        *)
(***************************************************************************)
\* imuHandler has returned from a sample whose time is scanPeriod or more
\* after the time of the slot before.
AfterGapSample == ipc = "idle" /\ imuCount >= 1 /\ imuIn.gap

\* C19: on a sample whose time differs from the time of the slot before by
\* scanPeriod or more, imuHandler stores time, roll, pitch, acceleration and
\* angular velocity in the new slot and does not integrate, and the
\* integration restarts from that sample: the velocity, shift and angular
\* rotation of the new slot depend on no earlier sample, so they are the
\* zero of a fresh integration and not what an older sample left in the
\* slot.
C19_GapRestartsCleanly ==
  AfterGapSample =>
    /\ imuTime[imuPointerLast] = imuIn.stamp
    /\ imuRoll[imuPointerLast] = imuIn.roll
    /\ imuPitch[imuPointerLast] = imuIn.pitch
    /\ imuAcc[imuPointerLast] = imuIn.acc
    /\ imuAngularVelo[imuPointerLast] = imuIn.angVel
    /\ imuVelo[imuPointerLast] = 0
    /\ imuShift[imuPointerLast] = 0
    /\ imuAngularRotation[imuPointerLast] = 0

\* The ring has been filled twice; the last sample came after a gap and its
\* slot still holds the velocity, shift and angular rotation integrated for
\* the sample that was in the slot one lap before.
C19_Witness ==
  /\ AfterGapSample
  /\ imuCount = 2 * imuQueLength
  /\ imuIn.acc = 0
  /\ imuVelo[imuPointerLast] = 4
  /\ imuShift[imuPointerLast] = 4
  /\ imuAngularRotation[imuPointerLast] = 4

(***************************************************************************)
(* Properties of the loop of runFeatureAssociation, checked under SpecFA.  *)
(***************************************************************************)
FeaturesOf(k, n) == [n |-> n, of |-> k, frame |-> "start"]

\* C14: exactly the first scan takes the bootstrap branch: from the end of
\* feature extraction it goes to the end of the loop body without
\* updateInitialGuess, updateTransformation and integrateTransformation,
\* its less sharp and less flat clouds become laserCloudCornerLast and
\* laserCloudSurfLast, both KD-trees are built on them and systemInitedLM
\* is set; systemInitedLM never becomes false again and every later scan
\* goes on with updateInitialGuess.
C14_FirstScanBootstraps ==
  [][ /\ (fpc = "extracted" /\ fpc' # "extracted") =>
            IF scan.no = 1
              THEN /\ BootstrapStep
                   /\ fpc' = "idle"
                   /\ scan.solves = 0 /\ scan.integrations = 0
                   /\ transformCur' = transformCur
                   /\ clouds'[ptr'.laserCloudCornerLast] =
                        FeaturesOf(1, projection.corner)
                   /\ clouds'[ptr'.laserCloudSurfLast] =
                        FeaturesOf(1, projection.surf)
                   /\ laserCloudCornerLastNum' = projection.corner
                   /\ laserCloudSurfLastNum' = projection.surf
                   /\ kdtree'.corner =
                        [object |-> ptr'.laserCloudCornerLast,
                         content |-> FeaturesOf(1, projection.corner)]
                   /\ kdtree'.surf =
                        [object |-> ptr'.laserCloudSurfLast,
                         content |-> FeaturesOf(1, projection.surf)]
              ELSE ~BootstrapStep /\ fpc' = "guessed"
      /\ (systemInitedLM => systemInitedLM') ]_vars

\* The second scan on the association path, its targets and KD-trees being
\* the features of the first scan.
C14_Witness ==
  /\ fpc = "guessed"
  /\ scan.no = 2
  /\ ~scan.bootstrap
  /\ systemInitedLM
  /\ clouds[ptr.laserCloudCornerLast].of = 1
  /\ clouds[ptr.laserCloudSurfLast].of = 1
  /\ kdtree.corner.content.of = 1
  /\ kdtree.surf.content.of = 1
  /\ laserCloudCornerLastNum = MinCornerLast + 1

\* C15: for every scan the worker receives, the first one included, exactly
\* one odometry pose is published when the scan has been processed: when
\* the worker is back at its loop test the poses published are those of
\* scans 1, 2, ..., one each.
C15_OneOdometryPerScan ==
  fpc = "idle" => odometry = [k \in 1 .. scan.no |-> k]

\* Three scans have been processed and two poses were published: the first
\* scan left through checkSystemInitialization and continue, before
\* publishOdometry.
C15_Witness ==
  /\ fpc = "idle"
  /\ scan.no = 3
  /\ systemInitedLM
  /\ odometry = << 2, 3 >>

\* The scans that went through association among the first n scans: all
\* but the first.
AssociationScans(n) == IF n = 0 THEN 0 ELSE n - 1

\* C16: a bundle is sent to the mapping after exactly every
\* mappingFrequencyDivider-th scan that went through association and after
\* no other scan, and cycle_count stays in [0, mappingFrequencyDivider)
\* between scans.
C16_ForwardEveryDthScan ==
  /\ fpc # "published" => cycle_count \in 0 .. mappingFrequencyDivider - 1
  /\ fpc = "idle" =>
       /\ forwarded =
            { k \in 1 .. scan.no :
                /\ AssociationScans(k) > 0
                /\ AssociationScans(k) % mappingFrequencyDivider = 0 }
       /\ cycle_count = AssociationScans(scan.no) % mappingFrequencyDivider

\* After the bootstrap scan and mappingFrequencyDivider association scans
\* one bundle has been sent, after the last of them.
C16_Witness ==
  /\ fpc = "idle"
  /\ scan.no = mappingFrequencyDivider + 1
  /\ forwarded = {mappingFrequencyDivider + 1}
  /\ cycle_count = 0

Extracting ==
  fpc \in {"extracted", "guessed", "solved", "surf", "surfDone", "corner",
           "cornerDone", "integrated", "odometry"}

\* C20: after publishCloudsLast laserCloudCornerLast and laserCloudSurfLast
\* hold the less sharp and less flat points extracted from that scan (same
\* sizes); the two current buffers and the two Last buffers are four
\* distinct objects; and from extractFeatures on, the current buffers hold
\* the features of the scan being processed only, nothing of the old Last
\* contents.
C20_SwapKeepsBuffersApart ==
  /\ Cardinality({ptr.cornerPointsLessSharp, ptr.surfPointsLessFlat,
                  ptr.laserCloudCornerLast, ptr.laserCloudSurfLast}) = 4
  /\ fpc = "published" =>
       /\ clouds[ptr.laserCloudCornerLast] =
            [n |-> projection.corner, of |-> scan.no, frame |-> "end"]
       /\ clouds[ptr.laserCloudSurfLast] =
            [n |-> projection.surf, of |-> scan.no, frame |-> "end"]
       /\ laserCloudCornerLastNum = projection.corner
       /\ laserCloudSurfLastNum = projection.surf
  /\ Extracting =>
       /\ clouds[ptr.cornerPointsLessSharp] =
            FeaturesOf(scan.no, projection.corner)
       /\ clouds[ptr.surfPointsLessFlat] =
            FeaturesOf(scan.no, projection.surf)

\* After publishCloudsLast of the third scan the targets are its features
\* and the current buffers hold the targets of before, of another size,
\* until extractFeatures clears them.
C20_Witness ==
  /\ fpc = "published"
  /\ scan.no = 3
  /\ clouds[ptr.laserCloudCornerLast].of = 3
  /\ clouds[ptr.cornerPointsLessSharp].of = 2
  /\ clouds[ptr.cornerPointsLessSharp].n # clouds[ptr.laserCloudCornerLast].n
  /\ clouds[ptr.surfPointsLessFlat].of = 2

(***************************************************************************)
(* Properties of the hand-over of the clouds, checked under SpecPipe.      *)
(***************************************************************************)
\* C21: no cloud and no message buffer is reachable from two stages at
\* once: what ImageProjection refers to (_segmented_cloud, _outlier_cloud,
\* the arrays of _seg_msg) is neither in the ProjectionOut it has sent nor
\* held by the worker; the AssociationOut sent to the mapping holds three
\* clouds of its own, none of them a cloud of the worker (in particular not
\* laserCloudCornerLast, laserCloudSurfLast or outlierCloud), and they are
\* copies: when the bundle is sent its corner and surf contents are those of
\* the Last clouds.
C21_NoBufferSharedBetweenStages ==
  /\ ProjectionObjects
       \cap (SentObjects \cup WorkerObjects \cup AssociationObjects) = {}
  /\ AssociationObjects \cap (WorkerObjects \cup SentObjects) = {}
  /\ association # NoAssociation =>
       Cardinality(AssociationObjects) = 3
  /\ (fpc = "idle" /\ scan.no \in forwarded) =>
       /\ association.corner = clouds[ptr.laserCloudCornerLast]
       /\ association.surf = clouds[ptr.laserCloudSurfLast]

\* A bundle with the features of the third scan has been sent to the
\* mapping while the message of the next scan waits in the channel and
\* ImageProjection holds its new clouds.
C21_Witness ==
  /\ fpc = "idle"
  /\ scan.no \in forwarded
  /\ association.corner.n > 0
  /\ association.corner.of = scan.no
  /\ Pending
  /\ pc = "idle"
  /\ Cardinality(ProjectionObjects) = 2

(***************************************************************************)
(* More properties of ImageProjection, checked under Spec.                 *)
(***************************************************************************)
GroundRemoved == pc \in {"ground", "labelling", "segmented"}

NoReturn(c) == range_mat[c] = FLT_MAX

\* C27: after groundRemoval, for every row i < groundScanInd and column j,
\* ground_mat(i, j) is -1 when the cell (i, j) or the cell (i+1, j) received
\* no return in this scan, and no cell without a return has ground_mat = 1.
C27_NoReturnIsInvalid ==
  GroundRemoved =>
    /\ \A i \in 0 .. (groundScanInd - 1), j \in Cols :
         (NoReturn(<< i, j >>) \/ NoReturn(<< i + 1, j >>)) =>
           ground_mat[<< i, j >>] = 0 - 1
    /\ \A c \in Cells : NoReturn(c) => ground_mat[c] # 1

\* groundRemoval has run on a scan with a column whose lower cell has a
\* return and whose upper cell has none: the pair is left at 0.
C27_Witness ==
  /\ GroundRemoved
  /\ \E j \in Cols :
       /\ ~NoReturn(<< 0, j >>)
       /\ NoReturn(<< 1, j >>)
       /\ ground_mat[<< 0, j >>] = 0
  /\ \A c \in Cells : NoReturn(c) => ground_mat[c] # 1

(***************************************************************************)
(* Properties of labelComponents, checked under SpecBFS.                   *)
(***************************************************************************)
\* C30: during one labelComponents search no cell is pushed onto the queue
\* more than once: all_pushed holds every push and holds no cell twice, so
\* the queue and all_pushed never exceed N_scan * horizon_scan entries;
\* every pushed cell is popped once, so the loop ends within that many
\* iterations; and when the loop has ended the size of all_pushed, which
\* the segment check uses, is the number of distinct cells that carry the
\* label of the call.  The images include those of 1 and 2 columns, where
\* the left and the right neighbour are the same cell.
C30_EachCellPushedOnce ==
  bpc = "searching" =>
    LET st == search.st
        cap == image.N_scan * image.horizon_scan
    IN /\ st.pushes = Len(st.all_pushed)
       /\ Cardinality(SeqRange(st.all_pushed)) = Len(st.all_pushed)
       /\ SeqRange(st.queue) \subseteq SeqRange(st.all_pushed)
       /\ Len(st.queue) <= cap
       /\ Len(st.all_pushed) <= cap
       /\ search.pops + Len(st.queue) = st.pushes
       /\ Len(st.queue) = 0 =>
            Len(st.all_pushed) =
              Cardinality({c \in CellsOfImage(image) :
                             st.label[c] = image.label_count})

\* A search has ended on an image of two columns and MaxRows rings, every
\* cell of which was pushed: the cluster wraps around the image.
C30_Witness ==
  /\ bpc = "searching"
  /\ image.horizon_scan = 2
  /\ image.N_scan = MaxRows
  /\ Len(search.st.queue) = 0
  /\ Len(search.st.all_pushed) = 2 * MaxRows
  /\ search.pops = 2 * MaxRows

(***************************************************************************)
(* More properties of feature extraction, checked under SpecEF.            *)
(***************************************************************************)
\* The curvature of the candidate at position k of cloudSmoothness.
CandidateCurvature(k) == cloudCurvature[cloudSmoothness[k].ind]

InSectorLoops == epc \in {"corner", "flat"}

\* C25: while the corner loop (k from ep down to sp) and the flat loop (k
\* from sp up to ep) of a sector run, the candidates at the positions sp ..
\* ep are in ascending order of curvature, so that the corner loop examines
\* them in non-increasing and the flat loop in non-decreasing order, the
\* position ep included.
C25_SectorExaminedInCurvatureOrder ==
  InSectorLoops =>
    \A k \in sp .. (ep - 1) :
      CandidateCurvature(k) <= CandidateCurvature(k + 1)

\* The corner loop is at its first candidate, position ep, whose curvature
\* is smaller than that of the candidate at ep - 1; the positions before ep
\* are in order.
C25_Witness ==
  /\ epc = "corner"
  /\ loop.k = ep
  /\ CandidateCurvature(ep) < CandidateCurvature(ep - 1)
  /\ \A k \in sp .. (ep - 2) :
       CandidateCurvature(k) <= CandidateCurvature(k + 1)

\* C26: every index extractFeatures examines as a candidate or reads a
\* label for (cloudSmoothness[k].ind and k itself, for sp <= k <= ep) is an
\* index i with 5 <= i < N - 5, which calculateSmoothness has written in
\* this scan.
C26_ExaminedIndicesSmoothed ==
  (InSectorLoops \/ epc = "lessFlat") =>
    \A k \in sp .. ep : Smoothed(k) /\ Smoothed(cloudSmoothness[k].ind)

\* In the second scan the first sector of ring 0 starts at position 4, which
\* calculateSmoothness does not write: its entry names a point with a value
\* that is not the point's curvature in this scan.
C26_Witness ==
  /\ epc = "corner"
  /\ scansExtracted = 2
  /\ sp = SmoothnessMargin - 1
  /\ ~Smoothed(sp)
  /\ cloudSmoothness[sp].ind >= SmoothnessMargin
  /\ cloudSmoothness[sp].value # CandidateCurvature(sp)

(***************************************************************************)
(* More properties of the node, checked under SpecNode.                    *)
(***************************************************************************)
\* The number of times the cursor loop of adjustDistortion advances
\* imuPointerFront from f for the time t.
RECURSIVE FrontSteps(_, _, _)
FrontSteps(f, t, g) ==
  IF f = imuPointerLast THEN 0
  ELSE IF t < Ext(imuTime, g)[f] THEN 0
  ELSE 1 + FrontSteps((f + 1) % imuQueLength, t, g)

\* adjustDistortion is about to search the ring for the points of a scan.
SearchesRing == fpc = "locked" /\ ~projection.sentinel /\ imuPointerLast >= 0

\* C24: every index adjustDistortion uses to read the IMU ring lies in
\* [0, imuQueLength): the cursor starts from an imuPointerLastIteration in
\* that range, imuPointerFront stays in it, and the cursor loop advances
\* at most imuQueLength times, whatever the order of IMU samples and scans.
C24_ImuCursorInRing ==
  /\ imu.imuPointerFront \in Slots
  /\ SearchesRing =>
       /\ imu.imuPointerLastIteration \in Slots
       /\ \A g \in Garbage, t \in {timeScanCur, timeScanCur + scanPeriod} :
            /\ FrontSteps(imu.imuPointerLastIteration, t, g) <= imuQueLength
            /\ FrontFrom(imu.imuPointerLastIteration, t, g) \in Slots

\* The second scan is about to be deskewed; the first was deskewed before
\* any IMU sample had arrived and left imuPointerLastIteration = -1, a
\* sample has arrived since.
C24_Witness ==
  /\ SearchesRing
  /\ scan.no = 2
  /\ imu.imuPointerLastIteration = 0 - 1
  /\ imuCount >= 1

\* The solver of updateTransformation is running: one of its two loops has
\* been entered and not yet left.
SolverRuns == fpc \in {"surf", "corner"}

\* C22: whenever updateTransformation runs the solver for a scan, the
\* KD-trees queried by the correspondence search were built from the very
\* clouds held in laserCloudCornerLast and laserCloudSurfLast, with their
\* present content, so an index returned by a query is the index of that
\* point in the current Last cloud; also with exactly 10 corners or exactly
\* 100 surfaces.
C22_TreesIndexCurrentTargets ==
  SolverRuns =>
    /\ kdtree.corner = TreeOf(ptr.laserCloudCornerLast, clouds)
    /\ kdtree.surf = TreeOf(ptr.laserCloudSurfLast, clouds)

\* The solver runs on targets of exactly 10 corners and 100 surfaces, while
\* the KD-trees index another object with the features of an earlier scan.
C22_Witness ==
  /\ SolverRuns
  /\ laserCloudCornerLastNum = MinCornerLast
  /\ laserCloudSurfLastNum = MinSurfLast
  /\ kdtree.corner.object # ptr.laserCloudCornerLast
  /\ kdtree.corner.content.of < clouds[ptr.laserCloudCornerLast].of

\* C23: in findCorrespondingCornerFeatures and
\* findCorrespondingSurfFeatures every index used to read
\* laserCloudCornerLast, resp. laserCloudSurfLast, is at least 0 and less
\* than the size of that target cloud, whatever the number of sharp or flat
\* features of the current scan and the size of the target cloud.
C23_TargetReadsInRange ==
  \A j \in corr.reads : 0 <= j /\ j < corr.t.n

\* A search is over in which the current scan had more sharp features than
\* the target cloud has points, and the forward loop has read the target
\* cloud at its size or beyond.
C23_Witness ==
  /\ corr.spc = "tripod"
  /\ corr.kind = "corner"
  /\ ForwardBound(corr) > corr.t.n
  /\ \E j \in corr.reads : j >= corr.t.n

InLoop == fpc \in {"surf", "corner"}

\* C29: updateTransformation runs all surface iterations before any corner
\* iteration, and at most 25 of each; a solver step is applied only in an
\* iteration whose search selected at least 10 correspondences; a surface
\* step leaves transformCur[1], [3], [5] as they are and a corner step
\* leaves transformCur[0], [2], [4] as they are.
C29_SurfaceThenCornerWithinLimits ==
  [][ /\ fpc' = "surf" => fpc \in {"guessed", "surf"}
      /\ fpc' = "corner" => fpc \in {"surfDone", "corner"}
      /\ fpc = "surfDone" => fpc' = "corner"
      /\ InLoop =>
           /\ fpc' \in {fpc, PassDone(fpc)}
           /\ iterCount < IterLimit
           /\ fpc' = fpc => iterCount' = iterCount + 1
           /\ transformCur' # transformCur => pass'.ori >= MinOri
           /\ \A i \in Pose \ {Updated(fpc)[k] : k \in 1 .. 3} :
                transformCur'[i] = transformCur[i] ]_vars

\* The 25th iteration of the corner loop is about to run, after steps of
\* the surface loop and of the corner loop have been applied.
C29_Witness ==
  /\ fpc = "corner"
  /\ iterCount = IterLimit - 1
  /\ pass.ori >= MinOri
  /\ transformCur[0] # 0
  /\ transformCur[1] # 0

\* C28: for every point of every scan the relative time of
\* adjustDistortion, (ori - startOrientation) / orientationDiff, lies in
\* [0, 1], so that the new intensity int(intensity) + scanPeriod * relTime
\* has the ring index of the point as its integer part.
C28_RelTimeInUnitInterval ==
  adj.apc = "adjusting" =>
    /\ 0 <= adj.relTime.num
    /\ adj.relTime.num <= adj.relTime.den
    /\ IntegerPart(adj.intensity) = adj.ring

\* A revolution that starts at azimuth 0: a point on ring 1 an eighth of a
\* turn before the start has a negative relative time and the integer part
\* of its new intensity is 0.
C28_Witness ==
  /\ adj.apc = "adjusting"
  /\ adj.startOrientation = 0
  /\ adj.orientationDiff = 2 * Pi
  /\ adj.ring = 1
  /\ adj.ori = 0 - 1
  /\ adj.relTime.num < 0
  /\ IntegerPart(adj.intensity) = 0

====
